---- MODULE Spec2Model ----
(***************************************************************************)
(* Model of backend/routes/workflow_chat.py of vid2workflow:               *)
(*   - the graph editor (call_workflow_edit_function and                   *)
(*     validate_and_fix_connections) on the in-memory working copy,        *)
(*   - one edit conversation turn (workflow_edit_chat): fetch, model loop, *)
(*     engine push, local mirror, response,                                *)
(*   - one acquisition chat turn (workflow_chat).                          *)
(* Absent / None / "" arguments are Python-falsy and are all written "".   *)
(***************************************************************************)
EXTENDS Integers, Sequences, FiniteSets, TLC

VARIABLES
    nodes,            \* n8n_workflow["nodes"]: list of node dicts
    connections,      \* n8n_workflow["connections"]: key -> type -> groups
    modified,         \* workflow_data["_modified"]
    idCounter,        \* number of uuid4 ids drawn so far
    lastCall,         \* the last editor call (function_name, arguments)
    lastResult,       \* the dict that call returned
    prevNodes,        \* nodes before the last editor call
    prevConnections,  \* connections before the last editor call
    opCount,          \* number of editor calls made
    pc,               \* where the edit turn (workflow_edit_chat) stands
    turn,             \* number of edit turns started
    engineGraph,      \* the graph the engine holds for the workflow
    dbGraph,          \* workflows.n8n_workflow_data in local storage
    hasEngineId,      \* workflow.get("n8n_workflow_id") is set
    iteration,        \* iteration counter of the model loop
    pending,          \* tool calls of the current assistant message not yet run
    all_function_calls,
    final_message,
    response,         \* what the turn returned
    fetchResult,      \* outcome of the live fetch of this turn
    pushResult,       \* outcome of the engine update of this turn
    startCopy,        \* the working copy the turn started with
    mutatedCopy,      \* the working copy when the model loop ended
    putAttempted,     \* requests.put was called in this turn
    dbWritten,        \* the storage update was made in this turn
    mutationSucceeded,\* some call of this turn reported a mutation
    loopEndResponse,  \* the dict the return statement yields when the model loop ends
    chatPc,           \* where the acquisition turn (workflow_chat) stands
    chatTurn,         \* number of acquisition turns started
    workflow_draft,   \* the draft's row in storage: steps, collected_params
    workflow_steps,   \* the turn's local step list
    collected_params, \* the turn's local collected store
    is_complete,
    assistant_tool_calls, \* tool calls of the first assistant message
    callIndex,        \* how many of them have run
    function_responses,
    chat_response,    \* what the acquisition turn returned
    markInvoked,      \* mark_workflow_complete was invoked in this turn
    current_user,     \* the authenticated user of the running request
    sheet_read,       \* what the last read_sheet_range of the turn did
    completeReturned, \* some earlier turn on the draft returned complete = true
    completeCount,    \* number of calls of complete_workflow_from_chat
    completion_response, \* what complete_workflow_from_chat returned
    requestCount,     \* number of calls of the form and search endpoints
    search_request,   \* the last request body of smart_search_sheet_api
    sheet_data,       \* what read_sheet_range did for that request
    search_response,  \* the ToolResponse it returned
    user_responses,   \* the answers of the last complete_workflow_with_answers call
    collected_data,   \* its step-indexed field maps when enrich_steps_with_data is called
    complete_response, \* what complete_workflow_with_answers returned
    workflows,        \* the rows process_video and plan_workflow inserted
    planning,         \* the last planning request: its path, the planner's result
    racePc,           \* where each of two overlapping workflow_chat turns stands
    raceParams,       \* each turn's local collected_params
    raceCalls,        \* each turn's tool calls
    readStore,        \* the collected store each turn read
    writesAtRead,     \* how many turns had written the store when each turn read it
    lastWriter        \* the turn that wrote the store last

graphVars == <<nodes, connections, modified, idCounter>>
callVars == <<lastCall, lastResult, prevNodes, prevConnections>>
storeVars == <<engineGraph, dbGraph, hasEngineId>>
turnVars == <<pc, turn, iteration, pending, all_function_calls, final_message, response,
              fetchResult, pushResult, startCopy, mutatedCopy, putAttempted, dbWritten,
              mutationSucceeded, loopEndResponse>>
chatVars == <<chatPc, chatTurn, workflow_draft, workflow_steps, collected_params, is_complete,
              assistant_tool_calls, callIndex, function_responses, chat_response,
              markInvoked, current_user, sheet_read, completeReturned, completeCount,
              completion_response>>
formVars == <<requestCount, search_request, sheet_data, search_response, user_responses,
              collected_data, complete_response, workflows, planning>>
raceVars == <<racePc, raceParams, raceCalls, readStore, writesAtRead, lastWriter>>

(***************************************************************************)
(* Bounds                                                                  *)
(***************************************************************************)
MaxOps == 2
MaxNodes == 3

(***************************************************************************)
(* Data                                                                    *)
(***************************************************************************)
EmptyMap == [k \in {} |-> ""]

\* ids that uuid4 hands out, in the order drawn (never an id already in use)
IdPool == <<"u1", "u2", "u3", "u4", "u5", "u6">>

NewNames == {"B", "Z"}

Edge(n, t, i) == [node |-> n, type |-> t, index |-> i]
MkNode(i, n, t, x) ==
    [id |-> i, name |-> n, type |-> t, typeVersion |-> "4.2",
     position |-> <<x, 300>>, parameters |-> [url |-> "p1"]]

Put(f, k, v) == [x \in (DOMAIN f) \cup {k} |-> IF x = k THEN v ELSE f[x]]
Drop(f, k) == [x \in (DOMAIN f) \ {k} |-> f[x]]
MapSeq(s, Op(_)) == [i \in 1..Len(s) |-> Op(s[i])]
RemoveAt(s, i) == [j \in 1..(Len(s) - 1) |-> IF j < i THEN s[j] ELSE s[j + 1]]

NodeIds(ns) == {ns[i].id : i \in 1..Len(ns)}
NodeNames(ns) == {ns[i].name : i \in 1..Len(ns)}

\* next((n for n in nodes if n["name"] == ident or n["id"] == ident), None):
\* index of the first match, 0 for None
FindNode(ns, ident) ==
    LET hits == {i \in 1..Len(ns) : ns[i].name = ident \/ ns[i].id = ident}
    IN IF hits = {} THEN 0 ELSE CHOOSE i \in hits : \A j \in hits : i <= j

(***************************************************************************)
(* validate_and_fix_connections                                            *)
(***************************************************************************)
RefExists(ns, key) == key \in NodeIds(ns) \/ key \in NodeNames(ns)

RECURSIVE PruneInPlace(_, _, _)
\* pruning the group while iterating over it: the element after a removed one
\* is never looked at
PruneInPlace(ns, group, i) ==
    IF i > Len(group) THEN group
    ELSE IF RefExists(ns, group[i].node) THEN PruneInPlace(ns, group, i + 1)
    ELSE PruneInPlace(ns, RemoveAt(group, i), i + 1)

CleanGroup_InPlace(ns, group) == PruneInPlace(ns, group, 1)

CleanGroup(ns, group) == SelectSeq(group, LAMBDA conn : RefExists(ns, conn.node))

CleanList_KeepEmpty(ns, connection_list) ==
    MapSeq(connection_list, LAMBDA g : CleanGroup(ns, g))

CleanList(ns, connection_list) ==
    SelectSeq(MapSeq(connection_list, LAMBDA g : CleanGroup(ns, g)),
              LAMBDA g : g # <<>>)

CleanData(ns, connection_data) ==
    LET cleaned == [t \in DOMAIN connection_data |-> CleanList(ns, connection_data[t])]
        kept == {t \in DOMAIN cleaned : cleaned[t] # <<>>}
    IN [t \in kept |-> cleaned[t]]

validate_and_fix_connections(ns, cs) ==
    LET sources == {k \in DOMAIN cs : RefExists(ns, k)}
        cleaned == [k \in sources |-> CleanData(ns, cs[k])]
        kept == {k \in sources : DOMAIN cleaned[k] # {}}
    IN [k \in kept |-> cleaned[k]]

(***************************************************************************)
(* call_workflow_edit_function: each branch maps the working copy          *)
(* (ns, cs) and the arguments to the new working copy, whether _modified   *)
(* is set, and the returned dict.                                          *)
(***************************************************************************)
Ok(msg) == [success |-> TRUE, error |-> "", message |-> msg]
Err(e) == [success |-> FALSE, error |-> e, message |-> ""]
Outcome(ns, cs, d, r) == [nodes |-> ns, connections |-> cs, dirty |-> d, result |-> r]

NoArgs ==
    [node_identifier |-> "", new_name |-> "", updates |-> EmptyMap,
     name |-> "", node_type |-> "", parameters |-> EmptyMap, position_after |-> "",
     source_node |-> "", target_node |-> "", source_output |-> "main",
     target_input_index |-> 0,
     \* the JSON type of the updates argument: the arguments are whatever
     \* json.loads made of the model's payload
     updates_type |-> "object"]

\* connections[prev_node_id]["main"] = [[{"node": new_node_id, ...}]]
WireAfter(cs, prev_node_id, new_node_id) ==
    LET entry == IF prev_node_id \in DOMAIN cs THEN cs[prev_node_id] ELSE EmptyMap
    IN Put(cs, prev_node_id, Put(entry, "main", <<<<Edge(new_node_id, "main", 0)>>>>))

add_node(ns, cs, args, new_node_id) ==
    LET position == IF ns # <<>>
                    THEN <<ns[Len(ns)].position[1] + 300, ns[Len(ns)].position[2]>>
                    ELSE <<250, 300>>
        new_node == [id |-> new_node_id, name |-> args.name, type |-> args.node_type,
                     typeVersion |-> IF args.node_type = "httpRequest" THEN "4.2" ELSE "2",
                     position |-> position, parameters |-> args.parameters]
        nodes2 == Append(ns, new_node)
        prev == FindNode(nodes2, args.position_after)
        wired == IF args.position_after # ""
                 THEN IF prev # 0 THEN WireAfter(cs, nodes2[prev].id, new_node_id) ELSE cs
                 ELSE IF Len(nodes2) > 1
                      THEN WireAfter(cs, nodes2[Len(nodes2) - 1].id, new_node_id)
                      ELSE cs
    IN Outcome(nodes2, validate_and_fix_connections(nodes2, wired), TRUE, Ok("added"))

\* the rename branch of modify_node: move the key, then rewrite the targets
RenameKey(cs, old_name, new_name) ==
    IF old_name \in DOMAIN cs THEN Put(Drop(cs, old_name), new_name, cs[old_name]) ELSE cs

RenameTargets(cs, old_name, new_name) ==
    [k \in DOMAIN cs |->
        [t \in DOMAIN cs[k] |->
            MapSeq(cs[k][t], LAMBDA g :
                MapSeq(g, LAMBDA conn :
                    IF conn.node = old_name THEN [conn EXCEPT !.node = new_name] ELSE conn))]]

SetParams(params, updates) ==
    [k \in (DOMAIN params) \cup (DOMAIN updates) |->
        IF k \in DOMAIN updates THEN updates[k] ELSE params[k]]

\* `if updates:` an empty dict, like None, is falsy; a non-empty list is not

modify_node(ns, cs, args) ==
    LET t == FindNode(ns, args.node_identifier)
        old_name == ns[t].name
        named == IF args.new_name # "" THEN [ns EXCEPT ![t].name = args.new_name] ELSE ns
        conns2 == IF args.new_name # ""
                  THEN RenameTargets(RenameKey(cs, old_name, args.new_name),
                                     old_name, args.new_name)
                  ELSE cs
        nodes2 == IF args.updates # EmptyMap
                  THEN [named EXCEPT ![t].parameters = SetParams(@, args.updates)]
                  ELSE named
    IN IF args.node_identifier = "" THEN Outcome(ns, cs, FALSE, Err("node_identifier is required"))
       ELSE IF args.updates_type = "object" /\ args.updates = EmptyMap /\ args.new_name = ""
       THEN Outcome(ns, cs, FALSE, Err("Either updates or new_name is required"))
       ELSE IF t = 0 THEN Outcome(ns, cs, FALSE, Err("not found"))
       \* line 920: updates.items() raises on a value that is not a dict, after
       \* the rename and before _modified is set and the table is validated;
       \* line 1171 turns the exception into an error result
       ELSE IF args.updates_type # "object"
       THEN Outcome(named, conns2, FALSE, Err("object has no attribute 'items'"))
       ELSE Outcome(nodes2, validate_and_fix_connections(nodes2, conns2), TRUE, Ok("modified"))

\* the "Remove incoming connections" loop of delete_node: only the "main" lists
ScrubMain(cs, node_id) ==
    [k \in DOMAIN cs |->
        IF "main" \in DOMAIN cs[k]
        THEN [cs[k] EXCEPT !["main"] =
                 MapSeq(@, LAMBDA g : SelectSeq(g, LAMBDA c : c.node # node_id))]
        ELSE cs[k]]

delete_node(ns, cs, args) ==
    LET t == FindNode(ns, args.node_identifier)
        node_id == ns[t].id
        \* nodes.remove(target_node) removes the first node equal to it
        first == CHOOSE i \in 1..Len(ns) : ns[i] = ns[t] /\ \A j \in 1..(i - 1) : ns[j] # ns[t]
        nodes2 == RemoveAt(ns, first)
        conns2 == ScrubMain(IF node_id \in DOMAIN cs THEN Drop(cs, node_id) ELSE cs, node_id)
    IN IF t = 0 THEN Outcome(ns, cs, FALSE, Err("not found"))
       ELSE Outcome(nodes2, validate_and_fix_connections(nodes2, conns2), TRUE, Ok("deleted"))

RECURSIVE RebuildFrom(_, _, _)
\* for i in range(len(nodes) - 1): connections[name_i]["main"] = [[-> name_(i+1)]]
RebuildFrom(ns, i, cs) ==
    IF i > Len(ns) - 1 THEN cs
    ELSE LET source_name == ns[i].name
             entry == IF source_name \in DOMAIN cs THEN cs[source_name] ELSE EmptyMap
         IN RebuildFrom(ns, i + 1,
                Put(cs, source_name,
                    Put(entry, "main", <<<<Edge(ns[i + 1].name, "main", 0)>>>>)))

rebuild_workflow_connections(ns, cs) ==
    IF Len(ns) = 0 THEN Outcome(ns, cs, FALSE, Err("No nodes to connect"))
    ELSE Outcome(ns, RebuildFrom(ns, 1, EmptyMap), TRUE, Ok("rebuilt"))

\* any(conn.get("node") == target_id for group in groups for conn in group)
ExistingConn(groups, target_id) ==
    \E g \in 1..Len(groups) : \E c \in 1..Len(groups[g]) : groups[g][c].node = target_id

connect_nodes(ns, cs, args) ==
    LET s == FindNode(ns, args.source_node)
        t == FindNode(ns, args.target_node)
        source_id == ns[s].id
        target_id == ns[t].id
        source_output == args.source_output
        c1 == IF source_id \in DOMAIN cs THEN cs ELSE Put(cs, source_id, EmptyMap)
        c2 == IF source_output \in DOMAIN c1[source_id] THEN c1
              ELSE Put(c1, source_id, Put(c1[source_id], source_output, <<<<>>>>))
        groups == c2[source_id][source_output]
        connection_obj == Edge(target_id, source_output, args.target_input_index)
        groups2 == IF groups # <<>>
                   THEN [groups EXCEPT ![1] = Append(@, connection_obj)]
                   ELSE <<<<connection_obj>>>>
    IN IF s = 0 THEN Outcome(ns, cs, FALSE, Err("source not found"))
       ELSE IF t = 0 THEN Outcome(ns, cs, FALSE, Err("target not found"))
       ELSE IF ExistingConn(groups, target_id)
       THEN Outcome(ns, c2, FALSE, Ok("already exists"))
       ELSE Outcome(ns, Put(c2, source_id, Put(c2[source_id], source_output, groups2)),
                    TRUE, Ok("connected"))

get_workflow_structure(ns, cs) == Outcome(ns, cs, FALSE, Ok("structure"))
get_workflow_connections(ns, cs) == Outcome(ns, cs, FALSE, Ok("connections"))
unknown_function(ns, cs) == Outcome(ns, cs, FALSE, Err("Function not found"))

(***************************************************************************)
(* Graphs the editor can be handed: what the engine or the local mirror    *)
(* holds when a turn starts.  The engine keys connections by node name,    *)
(* add_node and connect_nodes key them by node id, and a fetched graph may *)
(* carry references to nodes that no longer exist.                         *)
(***************************************************************************)
TwoNodes == <<MkNode("n1", "A", "httpRequest", 250), MkNode("n2", "B", "code", 550)>>
Main(groups) == [main |-> groups]

StartGraphs ==
    { [nodes |-> <<>>, connections |-> EmptyMap],
      [nodes |-> TwoNodes, connections |-> EmptyMap],
      [nodes |-> TwoNodes,
       connections |-> [A |-> Main(<<<<Edge("B", "main", 0)>>>>)]],
      [nodes |-> TwoNodes,
       connections |-> [n1 |-> Main(<<<<Edge("n2", "main", 0)>>>>)]],
      [nodes |-> TwoNodes,
       connections |-> [A |-> Main(<<<<Edge("B", "main", 0)>>>>),
                        B |-> Main(<<<<Edge("A", "main", 0)>>>>)]],
      [nodes |-> TwoNodes,
       connections |-> [A |-> Main(<<<<Edge("ghost", "main", 0), Edge("gone", "main", 0),
                                        Edge("B", "main", 0)>>>>),
                        ghost |-> Main(<<<<Edge("A", "main", 0)>>>>),
                        n2 |-> [alt |-> <<<<Edge("gone", "alt", 0)>>, <<Edge("n1", "alt", 1)>>>>]]] }

Refs(ns) == NodeIds(ns) \cup NodeNames(ns) \cup {"ghost"}

NoCall == [fn |-> "", args |-> NoArgs]
NoResult == [success |-> FALSE, error |-> "", message |-> ""]
NoGraph == [nodes |-> <<>>, connections |-> EmptyMap]
NoResponse == [message |-> "", function_calls |-> <<>>, workflow_modified |-> FALSE]

\* nothing called yet
CallsAtRest ==
    /\ idCounter = 0
    /\ lastCall = NoCall
    /\ lastResult = NoResult
    /\ prevNodes = <<>>
    /\ prevConnections = EmptyMap
    /\ opCount = 0

\* no turn running
TurnAtRest ==
    /\ turn = 0
    /\ iteration = 0
    /\ pending = <<>>
    /\ all_function_calls = <<>>
    /\ final_message = ""
    /\ response = NoResponse
    /\ fetchResult = "none"
    /\ pushResult = "none"
    /\ startCopy = NoGraph
    /\ mutatedCopy = NoGraph
    /\ putAttempted = FALSE
    /\ dbWritten = FALSE
    /\ mutationSucceeded = FALSE
    /\ loopEndResponse = NoResponse

NoDraft == [id |-> "", user_id |-> "", status |-> "", steps |-> <<>>,
            collected_params |-> EmptyMap, n8n_workflow_id |-> "",
            n8n_workflow_data |-> <<>>]
NoChatResponse == [message |-> <<>>, function_calls |-> <<>>, complete |-> FALSE]

\* no acquisition turn running
ChatAtRest ==
    /\ chatTurn = 0
    /\ workflow_steps = <<>>
    /\ collected_params = EmptyMap
    /\ is_complete = FALSE
    /\ assistant_tool_calls = <<>>
    /\ callIndex = 0
    /\ function_responses = <<>>
    /\ chat_response = NoChatResponse
    /\ markInvoked = FALSE
    /\ sheet_read = "none"
    /\ completeReturned = FALSE
    /\ completeCount = 0
    /\ completion_response = [status_code |-> 0, success |-> FALSE, n8n_workflow_id |-> "",
                              n8n_error |-> ""]

\* ToolResponse(success, data = None, error = None, retryable = False); data is
\* <<>> for None and <<d>> for a value d
ToolResponse(success, data, error, retryable) ==
    [success |-> success, data |-> data, error |-> error, retryable |-> retryable]
\* no form or search request made
FormAtRest ==
    /\ requestCount = 0
    /\ search_request = [user_id |-> "", spreadsheet_id |-> "", data_type |-> "",
                         start_row |-> 0, end_row |-> 0]
    /\ sheet_data = [raised |-> FALSE, values |-> <<>>]
    /\ search_response = ToolResponse(FALSE, <<>>, "", FALSE)
    /\ user_responses = EmptyMap
    /\ collected_data = EmptyMap
    /\ complete_response = [status_code |-> 0, success |-> FALSE, workflow_status |-> 0,
                             workflow_id |-> ""]
    /\ workflows = <<>>
    /\ planning = [request |-> 0, path |-> "", status |-> "", questions |-> <<>>,
                   status_code |-> 0]

\* the server processes that serve workflow_chat requests side by side
Workers == {"w1", "w2"}

\* no overlapping turns running
RaceAtRest ==
    /\ racePc = [w \in Workers |-> "off"]
    /\ raceParams = [w \in Workers |-> EmptyMap]
    /\ raceCalls = [w \in Workers |-> <<>>]
    /\ readStore = [w \in Workers |-> EmptyMap]
    /\ writesAtRead = [w \in Workers |-> 0]
    /\ lastWriter = ""

\* the editor alone: the working copy is any graph a turn can start from
Init ==
    /\ \E g \in StartGraphs : nodes = g.nodes /\ connections = g.connections
    /\ modified = FALSE
    /\ CallsAtRest
    /\ pc = "editing"
    /\ engineGraph = NoGraph
    /\ dbGraph = NoGraph
    /\ hasEngineId = FALSE
    /\ TurnAtRest
    /\ chatPc = "off"
    /\ workflow_draft = NoDraft
    /\ current_user = ""
    /\ ChatAtRest
    /\ FormAtRest
    /\ RaceAtRest

\* one call of call_workflow_edit_function on the working copy
Apply(fn, args, out) ==
    /\ nodes' = out.nodes
    /\ connections' = out.connections
    /\ modified' = (modified \/ out.dirty)
    /\ lastCall' = [fn |-> fn, args |-> args]
    /\ lastResult' = out.result
    /\ prevNodes' = nodes
    /\ prevConnections' = connections

AddNode ==
    /\ opCount < MaxOps
    /\ Len(nodes) < MaxNodes
    /\ idCounter < Len(IdPool)
    /\ \E nm \in NewNames, ty \in {"code"}, pa \in Refs(nodes) \cup {""} :
          LET args == [NoArgs EXCEPT !.name = nm, !.node_type = ty,
                                     !.parameters = [url |-> "p1"], !.position_after = pa]
          IN Apply("add_node", args, add_node(nodes, connections, args, IdPool[idCounter + 1]))
    /\ idCounter' = idCounter + 1
    /\ opCount' = opCount + 1
    /\ UNCHANGED <<storeVars, turnVars, chatVars, formVars, raceVars>>

ModifyNode ==
    /\ opCount < MaxOps
    /\ \E id \in Refs(nodes) \cup {""}, nn \in NewNames \cup {""}, up \in {EmptyMap, [url |-> "p2"]},
          ty \in {"object", "array"} :
          \* a list is modelled by its type alone
          /\ ty = "array" => up = EmptyMap
          /\ LET args == [NoArgs EXCEPT !.node_identifier = id, !.new_name = nn,
                                        !.updates = up, !.updates_type = ty]
             IN Apply("modify_node", args, modify_node(nodes, connections, args))
    /\ opCount' = opCount + 1
    /\ UNCHANGED <<idCounter, storeVars, turnVars, chatVars, formVars, raceVars>>

DeleteNode ==
    /\ opCount < MaxOps
    /\ \E id \in Refs(nodes) :
          LET args == [NoArgs EXCEPT !.node_identifier = id]
          IN Apply("delete_node", args, delete_node(nodes, connections, args))
    /\ opCount' = opCount + 1
    /\ UNCHANGED <<idCounter, storeVars, turnVars, chatVars, formVars, raceVars>>

ConnectNodes ==
    /\ opCount < MaxOps
    /\ \E s \in Refs(nodes), t \in Refs(nodes), o \in {"main", "alt"}, i \in {0} :
          LET args == [NoArgs EXCEPT !.source_node = s, !.target_node = t,
                                     !.source_output = o, !.target_input_index = i]
          IN Apply("connect_nodes", args, connect_nodes(nodes, connections, args))
    /\ opCount' = opCount + 1
    /\ UNCHANGED <<idCounter, storeVars, turnVars, chatVars, formVars, raceVars>>

RebuildConnections ==
    /\ opCount < MaxOps
    /\ Apply("rebuild_workflow_connections", NoArgs,
             rebuild_workflow_connections(nodes, connections))
    /\ opCount' = opCount + 1
    /\ UNCHANGED <<idCounter, storeVars, turnVars, chatVars, formVars, raceVars>>

GetStructure ==
    /\ opCount < MaxOps
    /\ Apply("get_workflow_structure", NoArgs, get_workflow_structure(nodes, connections))
    /\ opCount' = opCount + 1
    /\ UNCHANGED <<idCounter, storeVars, turnVars, chatVars, formVars, raceVars>>

GetConnections ==
    /\ opCount < MaxOps
    /\ Apply("get_workflow_connections", NoArgs, get_workflow_connections(nodes, connections))
    /\ opCount' = opCount + 1
    /\ UNCHANGED <<idCounter, storeVars, turnVars, chatVars, formVars, raceVars>>

UnknownFunction ==
    /\ opCount < MaxOps
    /\ Apply("save_workflow_changes", NoArgs, unknown_function(nodes, connections))
    /\ opCount' = opCount + 1
    /\ UNCHANGED <<idCounter, storeVars, turnVars, chatVars, formVars, raceVars>>

vars == <<nodes, connections, modified, idCounter, lastCall, lastResult,
          prevNodes, prevConnections, opCount, engineGraph, dbGraph, hasEngineId,
          pc, turn, iteration, pending, all_function_calls, final_message, response,
          fetchResult, pushResult, startCopy, mutatedCopy, putAttempted, dbWritten,
          mutationSucceeded, loopEndResponse, chatPc, chatTurn, workflow_draft,
          workflow_steps, collected_params, is_complete, assistant_tool_calls, callIndex,
          function_responses, chat_response, markInvoked, current_user, sheet_read,
          completeReturned, completeCount, completion_response, requestCount,
          search_request, sheet_data, search_response, user_responses, collected_data,
          complete_response, workflows, planning, racePc, raceParams, raceCalls, readStore, writesAtRead,
          lastWriter>>

Next ==
    \/ AddNode
    \/ ModifyNode
    \/ DeleteNode
    \/ ConnectNodes
    \/ RebuildConnections
    \/ GetStructure
    \/ GetConnections
    \/ UnknownFunction

Spec == Init /\ [][Next]_vars

(***************************************************************************)
(* Reading a connection table                                              *)
(***************************************************************************)
\* every edge of the table by its place: <<source key, type, group, slot>>
Places(cs) ==
    UNION {UNION {UNION {{<<k, t, g, c>> : c \in 1..Len(cs[k][t][g])}
                         : g \in 1..Len(cs[k][t])}
                  : t \in DOMAIN cs[k]}
           : k \in DOMAIN cs}
ConnAt(cs, p) == cs[p[1]][p[2]][p[3]][p[4]]
\* the edges as (source key, connection type, target reference, input index)
EdgeSet(cs) ==
    {[source |-> p[1], type |-> p[2], target |-> ConnAt(cs, p).node,
      index |-> ConnAt(cs, p).index] : p \in Places(cs)}
Targets(cs) == {ConnAt(cs, p).node : p \in Places(cs)}
\* number of edges of type ty that lead from node number s to node number t,
\* whichever form (id or name) the key and the target are written in
EdgeCount(ns, cs, s, t, ty) ==
    Cardinality({p \in Places(cs) :
        /\ p[2] = ty
        /\ FindNode(ns, p[1]) = s
        /\ FindNode(ns, ConnAt(cs, p).node) = t})
Dangling(ns, cs) ==
    {k \in DOMAIN cs : ~RefExists(ns, k)} \cup {r \in Targets(cs) : ~RefExists(ns, r)}

Succeeded(fn) == lastCall.fn = fn /\ lastResult.success

(***************************************************************************)
(* Properties of the editor calls (specification Spec)                     *)
(***************************************************************************)
EdgeAt(cs, p) ==
    [source |-> p[1], type |-> p[2], target |-> ConnAt(cs, p).node,
     index |-> ConnAt(cs, p).index]

\* the node the last modify_node / delete_node call addressed, as it was before
Addressed == prevNodes[FindNode(prevNodes, lastCall.args.node_identifier)]
OldName == Addressed.name
NewName == lastCall.args.new_name
RenameDone == Succeeded("modify_node") /\ NewName # "" /\ NewName # OldName
Ren(r) == IF r = OldName THEN NewName ELSE r

\* the edges that were keyed by or targeted the old name and joined two
\* existing nodes
Touching ==
    {p \in Places(prevConnections) :
        /\ RefExists(prevNodes, p[1])
        /\ RefExists(prevNodes, ConnAt(prevConnections, p).node)
        /\ (p[1] = OldName \/ ConnAt(prevConnections, p).node = OldName)}
Renamed(p) == [EdgeAt(prevConnections, p) EXCEPT !.source = Ren(@), !.target = Ren(@)]

\* C1: after a successful modify_node that renames a node from its old name to
\* Z, every edge that was keyed by the old name is keyed by Z, every edge that
\* targeted the old name targets Z (none of them is lost), and no key and no
\* edge target equals the old name.
C1_RenamePropagation ==
    RenameDone =>
        /\ OldName \notin DOMAIN connections
        /\ OldName \notin Targets(connections)
        /\ \A p \in Touching :
              Cardinality({q \in Touching : Renamed(q) = Renamed(p)})
                <= Cardinality({q \in Places(connections) :
                                   EdgeAt(connections, q) = Renamed(p)})

\* C2: after a successful delete_node(X) the node list no longer contains X, no
\* connection-table key is X's id or X's name, and no edge targets X's id or
\* X's name.
C2_DeletionCleanup ==
    Succeeded("delete_node") =>
        /\ \A i \in 1..Len(nodes) : nodes[i].id # Addressed.id
        /\ {Addressed.id, Addressed.name} \cap DOMAIN connections = {}
        /\ {Addressed.id, Addressed.name} \cap Targets(connections) = {}

Mutations ==
    {"add_node", "modify_node", "delete_node", "connect_nodes",
     "rebuild_workflow_connections"}

\* C3: after every successful editor mutation every connection-table key and
\* every edge target is the id or the name of a current node.
C3_NoDanglingAfterMutation ==
    (lastCall.fn \in Mutations /\ lastResult.success) => Dangling(nodes, connections) = {}

ValidateTwiceIsOnce(ns, cs) ==
    LET once == validate_and_fix_connections(ns, cs)
    IN validate_and_fix_connections(ns, once) = once

\* C4: validate_and_fix_connections is a fixed point: run on its own result it
\* returns that result, for the table of every reachable working copy and for
\* the table an editor call started from, against the node list before and
\* after the call.
C4_ValidateFixedPoint ==
    \A ns \in {nodes, prevNodes} : \A cs \in {connections, prevConnections} :
        ValidateTwiceIsOnce(ns, cs)

\* C4 witness: a mutation has run validate_and_fix_connections on a table that
\* held dangling references, and the repaired table is left as it is by another
\* run.
C4_Witness ==
    /\ lastCall.fn \in {"add_node", "modify_node", "delete_node"}
    /\ lastResult.success
    /\ Dangling(prevNodes, prevConnections) # {}
    /\ validate_and_fix_connections(nodes, prevConnections) # prevConnections
    /\ validate_and_fix_connections(nodes, connections) = connections

\* the step is a second, identical, successful connect_nodes call
SecondConnect ==
    /\ Succeeded("connect_nodes")
    /\ lastCall' = lastCall
    /\ opCount' = opCount + 1
    /\ lastResult'.success

\* C5: the second of two successive connect_nodes(A, B) calls reports success,
\* changes nothing in the connection table, and leaves exactly one edge from A
\* to B on that output.
C5_ConnectTwiceOneEdge ==
    [][SecondConnect =>
          /\ connections' = connections
          /\ lastResult'.message = "already exists"
          /\ EdgeCount(nodes', connections',
                       FindNode(nodes, lastCall.args.source_node),
                       FindNode(nodes, lastCall.args.target_node),
                       lastCall.args.source_output) = 1]_vars

(***************************************************************************)
(* Node references, the dirty flag and the single mutations                *)
(* (specification Spec)                                                    *)
(***************************************************************************)
\* C25: in every working copy reached from a graph with unique ids and unique
\* names, node ids are pairwise distinct and node names are pairwise distinct,
\* so that a node's id and a node's name resolve to that one node in the lookup
\* of modify_node, delete_node and connect_nodes.
C25_ReferencesAgree ==
    \A i \in 1..Len(nodes) :
        /\ \A j \in 1..Len(nodes) :
              i # j => (nodes[i].id # nodes[j].id /\ nodes[i].name # nodes[j].name)
        /\ FindNode(nodes, nodes[i].id) = i
        /\ FindNode(nodes, nodes[i].name) = i

\* the step is one editor call
EditorCall == opCount' = opCount + 1
ReadOnly == {"get_workflow_structure", "get_workflow_connections"}
GraphKept == nodes' = nodes /\ connections' = connections

\* C26: the dirty flag is set by every successful add_node, modify_node,
\* delete_node, rebuild_workflow_connections and edge-adding connect_nodes and
\* is never reset; get_workflow_structure, get_workflow_connections, a
\* connect_nodes that finds the edge present and every call that returns an
\* error leave the nodes, the connection table and the flag unchanged.
C26_DirtyExactlyBySuccessfulMutation ==
    [][EditorCall =>
          /\ modified => modified'
          /\ (/\ lastCall'.fn \in Mutations
              /\ lastResult'.success
              /\ lastResult'.message # "already exists") => modified'
          /\ (\/ lastCall'.fn \in ReadOnly
              \/ lastResult'.message = "already exists"
              \/ ~lastResult'.success) => (GraphKept /\ modified' = modified)]_vars

\* C27: a call that returns an error leaves the node list and the connection
\* table exactly as they were before the call.
C27_ErrorLeavesGraph ==
    [][(EditorCall /\ ~lastResult'.success) => GraphKept]_vars

\* the edges of the table that lead to node number t, in either form
Inbound(ns, cs, t) == {p \in Places(cs) : FindNode(ns, ConnAt(cs, p).node) = t}

\* C28: after a successful add_node on a graph that had at least one node the
\* new node's id differs from every existing id, it is positioned after the
\* previous last node, and it has exactly one inbound edge, from the node
\* named by position_after when one is given and else from the previous last
\* node; on an empty graph it is placed at the default origin with no edge.
C28_AddNodeWiredOnce ==
    Succeeded("add_node") =>
        LET new == nodes[Len(nodes)]
            last == prevNodes[Len(prevNodes)]
            after == lastCall.args.position_after
            source == IF after # "" THEN FindNode(prevNodes, after) ELSE Len(prevNodes)
        IN IF prevNodes # <<>>
           THEN /\ new.id \notin NodeIds(prevNodes)
                /\ new.position = <<last.position[1] + 300, last.position[2]>>
                /\ Cardinality(Inbound(nodes, connections, Len(nodes))) = 1
                /\ \A p \in Inbound(nodes, connections, Len(nodes)) :
                      FindNode(nodes, p[1]) = source
           ELSE /\ new.position = <<250, 300>>
                /\ Places(connections) = {}

\* lines 991-1029 of get_workflow_connections: a key or target is taken as an id
\* when it is one, else as a name; "" when it is neither
ResolvedName(ns, key) ==
    IF key \in NodeIds(ns)
    THEN ns[CHOOSE i \in 1..Len(ns) :
                ns[i].id = key /\ \A j \in (i + 1)..Len(ns) : ns[j].id # key].name
    ELSE IF key \in NodeNames(ns) THEN key ELSE ""

\* the connection_list it reports, each entry by the place it was read from
ListedPlaces(ns, cs) ==
    {p \in Places(cs) : ResolvedName(ns, p[1]) # "" /\ ResolvedName(ns, ConnAt(cs, p).node) # ""}
ListedEntry(ns, cs, p) ==
    [from |-> ResolvedName(ns, p[1]), to |-> ResolvedName(ns, ConnAt(cs, p).node), type |-> p[2]]

\* the entry connect_nodes(source_node, target_node) of the step is about
AskedEntry ==
    [from |-> nodes[FindNode(nodes, lastCall'.args.source_node)].name,
     to |-> nodes[FindNode(nodes, lastCall'.args.target_node)].name,
     type |-> lastCall'.args.source_output]
Listings(ns, cs, entry) == {p \in ListedPlaces(ns, cs) : ListedEntry(ns, cs, p) = entry}

\* the call of the step is connect_nodes for an edge the connection list
\* already reports
ConnectListedEdge ==
    /\ EditorCall
    /\ lastCall'.fn = "connect_nodes"
    /\ lastResult'.success
    /\ Listings(nodes, connections, AskedEntry) # {}

\* C30: connect_nodes accepts both connection forms: when the edge A -> B
\* exists, keyed by name as rebuild_workflow_connections writes it or by id,
\* connect_nodes(A, B) reports that it exists and adds nothing, so the
\* connection list of get_workflow_connections does not come to hold the pair
\* a second time.
C30_ConnectSeesBothForms ==
    [][ConnectListedEdge =>
          /\ lastResult'.message = "already exists"
          /\ connections' = connections
          /\ Cardinality(Listings(nodes', connections', AskedEntry))
                = Cardinality(Listings(nodes, connections, AskedEntry))]_vars

\* lines 1044-1048: the entries of the connection list whose target name is
\* no node's name; the list holds only edges whose two ends resolved
broken_connections(ns, cs) ==
    {p \in ListedPlaces(ns, cs) : ListedEntry(ns, cs, p).to \notin NodeNames(ns)}

\* C31: get_workflow_connections reports, in broken_connections, every edge
\* of the connection table whose target resolves to no existing node, by id or
\* by name.
C31_BrokenConnectionsReported ==
    Succeeded("get_workflow_connections") =>
        \A p \in Places(connections) :
            ~RefExists(nodes, ConnAt(connections, p).node) =>
                p \in broken_connections(nodes, connections)

\* C35: add_node leaves every pre-existing connection in place: each edge
\* present before the call, the outbound edges of the node the new node is
\* wired after included, is still present after the call.
C35_AddNodeKeepsEdges ==
    Succeeded("add_node") => EdgeSet(prevConnections) \subseteq EdgeSet(connections)

\* the edges of a table whose source key and target are current nodes
Resolvable(ns, cs) ==
    {p \in Places(cs) : RefExists(ns, p[1]) /\ RefExists(ns, ConnAt(cs, p).node)}

\* C36 (as stated): validate_and_fix_connections removes only unresolvable
\* references: every edge whose source key and target both resolve survives
\* with the same source key, connection type, output-slot position inside that
\* type's list and input index.
C36_ValidateKeepsResolvable ==
    \A cs \in {connections, prevConnections} :
        \A p \in Resolvable(nodes, cs) :
            LET fixed == validate_and_fix_connections(nodes, cs)
            IN  \E q \in Places(fixed) :
                    /\ q[1] = p[1] /\ q[2] = p[2] /\ q[3] = p[3]
                    /\ ConnAt(fixed, q) = ConnAt(cs, p)

\* where pruning puts the edge at place p: groups and edges before it that
\* held no resolvable target are gone
PlaceAfterPruning(ns, cs, p) ==
    <<p[1], p[2],
      p[3] - Cardinality({g \in 1..(p[3] - 1) :
                 \A c \in 1..Len(cs[p[1]][p[2]][g]) :
                     ~RefExists(ns, cs[p[1]][p[2]][g][c].node)}),
      p[4] - Cardinality({c \in 1..(p[4] - 1) :
                 ~RefExists(ns, cs[p[1]][p[2]][p[3]][c].node)})>>

\* C36 (amended): every edge whose source key and target both resolve survives
\* with the same source key, connection type and input index, in the same
\* order; its output-slot position is lowered by the number of groups before it
\* that pruning emptied, since emptied groups are removed.
C36_ValidateKeepsResolvableInOrder ==
    \A cs \in {connections, prevConnections} :
        \A p \in Resolvable(nodes, cs) :
            LET fixed == validate_and_fix_connections(nodes, cs)
                q == PlaceAfterPruning(nodes, cs, p)
            IN  /\ q \in Places(fixed)
                /\ ConnAt(fixed, q) = ConnAt(cs, p)

\* C36 witness: add_node ran validate_and_fix_connections on a table whose
\* alt list of n2 held an unresolvable group before the edge to n1; the edge
\* is now in the first group.
C36_Witness ==
    /\ Succeeded("add_node")
    /\ "n2" \in DOMAIN prevConnections
    /\ "alt" \in DOMAIN prevConnections.n2
    /\ Len(prevConnections.n2.alt) = 2
    /\ ~RefExists(nodes, prevConnections.n2.alt[1][1].node)
    /\ prevConnections.n2.alt[2] = <<Edge("n1", "alt", 1)>>
    /\ "n2" \in DOMAIN connections
    /\ connections.n2.alt = <<<<Edge("n1", "alt", 1)>>>>

(***************************************************************************)
(* A later turn: the working copy is a graph that an earlier turn's rename  *)
(* left in the local mirror (specification LaterSpec)                      *)
(***************************************************************************)
LeftGraphs ==
    LET RenameAToB == [NoArgs EXCEPT !.node_identifier = "A", !.new_name = "B"]
    IN { [nodes |-> modify_node(g.nodes, g.connections, RenameAToB).nodes,
          connections |-> modify_node(g.nodes, g.connections, RenameAToB).connections]
         : g \in {h \in StartGraphs : h.nodes # <<>>} }

LaterInit ==
    /\ \E g \in LeftGraphs : nodes = g.nodes /\ connections = g.connections
    /\ modified = FALSE
    /\ CallsAtRest
    /\ pc = "editing"
    /\ engineGraph = NoGraph
    /\ dbGraph = NoGraph
    /\ hasEngineId = FALSE
    /\ TurnAtRest
    /\ chatPc = "off"
    /\ workflow_draft = NoDraft
    /\ current_user = ""
    /\ ChatAtRest
    /\ FormAtRest
    /\ RaceAtRest

LaterSpec == LaterInit /\ [][Next]_vars

\* line 1103: the count the call reports
connections_created(ns) == Len(ns) - 1

\* C29: rebuild_workflow_connections on N >= 1 nodes discards every prior
\* connection and leaves exactly N-1 edges, one from node i to node i+1 for
\* every i, keyed and targeted by node name, and the reported
\* connections_created is the number of edges present.
C29_RebuildIsChain ==
    Succeeded("rebuild_workflow_connections") =>
        /\ EdgeSet(connections) =
              {[source |-> nodes[i].name, type |-> "main", target |-> nodes[i + 1].name,
                index |-> 0] : i \in 1..(Len(nodes) - 1)}
        /\ Cardinality(Places(connections)) = Len(nodes) - 1
        /\ connections_created(nodes) = Cardinality(Places(connections))


(***************************************************************************)
(* workflow_edit_chat: one edit conversation turn after another            *)
(* (specification TurnSpec)                                                *)
(***************************************************************************)
MaxTurns == 2
MaxCalls == 2
max_iterations == 10

Working == [nodes |-> nodes, connections |-> connections]

TurnStartGraphs ==
    { [nodes |-> <<>>, connections |-> EmptyMap],
      [nodes |-> TwoNodes,
       connections |-> [A |-> Main(<<<<Edge("B", "main", 0)>>>>)]],
      [nodes |-> TwoNodes,
       connections |-> [ghost |-> Main(<<<<Edge("A", "main", 0)>>>>)]] }

\* the tool calls the model asks for in a turn
TurnMenu ==
    { [fn |-> "get_workflow_structure", args |-> NoArgs],
      [fn |-> "rebuild_workflow_connections", args |-> NoArgs],
      [fn |-> "connect_nodes",
       args |-> [NoArgs EXCEPT !.source_node = "A", !.target_node = "B"]],
      [fn |-> "delete_node", args |-> [NoArgs EXCEPT !.node_identifier = "B"]] }

\* the if/elif chain of call_workflow_edit_function
Dispatch(call, ns, cs, new_node_id) ==
    CASE call.fn = "get_workflow_structure" -> get_workflow_structure(ns, cs)
      [] call.fn = "add_node" -> add_node(ns, cs, call.args, new_node_id)
      [] call.fn = "modify_node" -> modify_node(ns, cs, call.args)
      [] call.fn = "delete_node" -> delete_node(ns, cs, call.args)
      [] call.fn = "get_workflow_connections" -> get_workflow_connections(ns, cs)
      [] call.fn = "rebuild_workflow_connections" -> rebuild_workflow_connections(ns, cs)
      [] call.fn = "connect_nodes" -> connect_nodes(ns, cs, call.args)
      [] OTHER -> unknown_function(ns, cs)

\* lines 1194-1227: the engine's graph when the workflow has an engine id and
\* the GET answered 200, the locally stored graph otherwise
FetchedCopy_AlwaysLocal(has_id, fetch_ok, engine, db) == db

FetchedCopy(has_id, fetch_ok, engine, db) ==
    IF has_id /\ fetch_ok THEN engine ELSE db

\* line 1455: the auto-save condition
ShouldSave_Always(modified_flag) == TRUE

ShouldSave(modified_flag) == modified_flag

\* lines 1504-1508: the storage update is made whatever the push did
MirroredGraph_OnlyAfterPush(push_result, db, copy) ==
    IF push_result = "failed" THEN db ELSE copy

MirroredGraph(push_result, db, copy) == copy

\* lines 1518-1522: the dict the turn returns
TurnResponse(message, calls, modified_flag) ==
    [message |-> message, function_calls |-> calls, workflow_modified |-> modified_flag]

\* line 1393: the while condition of the model loop
LoopContinues_OneMore(i) == i <= max_iterations

LoopContinues(i) == i < max_iterations

TurnInit ==
    /\ nodes = <<>>
    /\ connections = EmptyMap
    /\ modified = FALSE
    /\ CallsAtRest
    /\ pc = "idle"
    /\ hasEngineId \in BOOLEAN
    /\ dbGraph \in TurnStartGraphs
    /\ engineGraph \in (IF hasEngineId THEN TurnStartGraphs ELSE {NoGraph})
    /\ TurnAtRest
    /\ chatPc = "off"
    /\ workflow_draft = NoDraft
    /\ current_user = ""
    /\ ChatAtRest
    /\ FormAtRest
    /\ RaceAtRest

\* lines 1187-1233: read the record, fetch from the engine, fall back to storage
StartTurn ==
    /\ pc = "idle"
    /\ turn < MaxTurns
    /\ turn' = turn + 1
    /\ \E fetch_ok \in BOOLEAN :
          /\ fetchResult' = (IF ~hasEngineId THEN "none" ELSE IF fetch_ok THEN "ok" ELSE "failed")
          /\ LET copy == FetchedCopy(hasEngineId, fetch_ok, engineGraph, dbGraph)
             IN /\ nodes' = copy.nodes
                /\ connections' = copy.connections
                /\ startCopy' = copy
    /\ modified' = FALSE
    /\ iteration' = 0
    /\ pending' = <<>>
    /\ all_function_calls' = <<>>
    /\ final_message' = ""
    /\ pushResult' = "none"
    /\ mutatedCopy' = NoGraph
    /\ putAttempted' = FALSE
    /\ dbWritten' = FALSE
    /\ mutationSucceeded' = FALSE
    /\ lastCall' = NoCall
    /\ lastResult' = NoResult
    /\ prevNodes' = <<>>
    /\ prevConnections' = EmptyMap
    /\ response' = NoResponse
    /\ loopEndResponse' = NoResponse
    /\ pc' = "loop"
    /\ UNCHANGED <<idCounter, opCount, chatVars, formVars, raceVars, storeVars>>

\* lines 1393-1452: the loop head and the model call.  The model answers with
\* tool calls or with text; past max_iterations the turn forces its message.
\* Once MaxCalls calls have run the model may only go on reading the
\* structure, which is how a turn reaches the iteration limit.
ModelCall ==
    /\ pc = "loop"
    /\ IF LoopContinues(iteration)
       THEN /\ iteration' = iteration + 1
            /\ \/ /\ Len(all_function_calls) < MaxCalls
                  /\ \E c1 \in TurnMenu :
                        \/ pending' = <<c1>>
                        \/ /\ Len(all_function_calls) + 1 < MaxCalls
                           /\ \E c2 \in TurnMenu : pending' = <<c1, c2>>
                  /\ pc' = "tools"
                  /\ UNCHANGED <<final_message, mutatedCopy, loopEndResponse>>
               \/ /\ Len(all_function_calls) >= MaxCalls
                  /\ pending' = <<[fn |-> "get_workflow_structure", args |-> NoArgs]>>
                  /\ pc' = "tools"
                  /\ UNCHANGED <<final_message, mutatedCopy, loopEndResponse>>
               \/ /\ final_message' = "Done."
                  /\ mutatedCopy' = Working
                  /\ loopEndResponse' = TurnResponse("Done.", all_function_calls, modified)
                  /\ pc' = "save"
                  /\ UNCHANGED pending
       ELSE /\ final_message' = "Completed. (Note: Maximum iteration limit reached)"
            /\ mutatedCopy' = Working
            /\ loopEndResponse' =
                  TurnResponse("Completed. (Note: Maximum iteration limit reached)",
                               all_function_calls, modified)
            /\ pc' = "save"
            /\ UNCHANGED <<iteration, pending>>
    /\ UNCHANGED <<graphVars, callVars, opCount, chatVars, formVars, raceVars, storeVars, turn, all_function_calls,
                   response, fetchResult, pushResult, startCopy, putAttempted, dbWritten,
                   mutationSucceeded>>

\* lines 1399-1405 raising (the model API fails): the handler answers 500
ModelCallFails ==
    /\ pc = "loop"
    /\ LoopContinues(iteration)
    /\ iteration' = iteration + 1
    /\ response' = [message |-> "HTTP 500", function_calls |-> <<>>,
                    workflow_modified |-> FALSE]
    /\ pc' = "idle"
    /\ UNCHANGED <<graphVars, callVars, opCount, chatVars, formVars, raceVars, storeVars, turn, pending,
                   all_function_calls, final_message, fetchResult, pushResult, startCopy,
                   mutatedCopy, putAttempted, dbWritten, mutationSucceeded, loopEndResponse>>

\* lines 1417-1442: run the next tool call of the assistant message
ToolCall ==
    /\ pc = "tools"
    /\ pending # <<>>
    /\ LET call == Head(pending)
           out == Dispatch(call, nodes, connections, IdPool[idCounter + 1])
       IN /\ Apply(call.fn, call.args, out)
          /\ all_function_calls' = Append(all_function_calls, call)
          /\ mutationSucceeded' =
                (mutationSucceeded \/ (call.fn \in Mutations /\ out.result.success
                                       /\ out.result.message # "already exists"))
          /\ idCounter' = IF call.fn = "add_node" THEN idCounter + 1 ELSE idCounter
    /\ pending' = Tail(pending)
    /\ pc' = IF Tail(pending) = <<>> THEN "loop" ELSE "tools"
    /\ UNCHANGED <<opCount, chatVars, formVars, raceVars, storeVars, turn, iteration, final_message, response,
                   fetchResult, pushResult, startCopy, mutatedCopy, putAttempted,
                   dbWritten, loopEndResponse>>

\* line 1419: json.loads(tool_call.function.arguments) raises on a payload that
\* is not JSON; the handler's except answers 500 and nothing is saved
ToolCallUnparsable ==
    /\ pc = "tools"
    /\ pending # <<>>
    /\ pending' = <<>>
    /\ response' = [message |-> "HTTP 500", function_calls |-> <<>>,
                    workflow_modified |-> FALSE]
    /\ pc' = "idle"
    /\ UNCHANGED <<graphVars, callVars, opCount, chatVars, formVars, raceVars, storeVars, turn, iteration,
                   all_function_calls, final_message, fetchResult, pushResult, startCopy,
                   mutatedCopy, putAttempted, dbWritten, mutationSucceeded, loopEndResponse>>

\* lines 1454-1502: if _modified, PUT the working copy to the engine when the
\* workflow has an engine id; a non-200 reply or an exception is only printed
PushEngine ==
    /\ pc = "save"
    /\ IF ShouldSave(modified)
       THEN /\ IF hasEngineId
               THEN /\ putAttempted' = TRUE
                    /\ \E put_ok \in BOOLEAN :
                          /\ pushResult' = (IF put_ok THEN "ok" ELSE "failed")
                          /\ engineGraph' = (IF put_ok THEN Working ELSE engineGraph)
               ELSE UNCHANGED <<putAttempted, pushResult, engineGraph>>
            /\ pc' = "mirror"
       ELSE /\ pc' = "respond"
            /\ UNCHANGED <<putAttempted, pushResult, engineGraph>>
    /\ UNCHANGED <<graphVars, callVars, opCount, chatVars, formVars, raceVars, dbGraph, hasEngineId, turn, iteration,
                   pending, all_function_calls, final_message, response, fetchResult,
                   startCopy, mutatedCopy, dbWritten, mutationSucceeded, loopEndResponse>>

\* lines 1504-1509: update n8n_workflow_data in storage
MirrorDb ==
    /\ pc = "mirror"
    /\ dbGraph' = MirroredGraph(pushResult, dbGraph, Working)
    /\ dbWritten' = TRUE
    /\ pc' = "respond"
    /\ UNCHANGED <<graphVars, callVars, opCount, chatVars, formVars, raceVars, engineGraph, hasEngineId, turn, iteration,
                   pending, all_function_calls, final_message, response, fetchResult,
                   pushResult, startCopy, mutatedCopy, putAttempted, mutationSucceeded,
                   loopEndResponse>>

\* lines 1518-1522: return message, function_calls and workflow_modified
Respond ==
    /\ pc = "respond"
    /\ response' = TurnResponse(final_message, all_function_calls, modified)
    /\ pc' = "idle"
    /\ UNCHANGED <<graphVars, callVars, opCount, chatVars, formVars, raceVars, storeVars, turn, iteration, pending,
                   all_function_calls, final_message, fetchResult, pushResult, startCopy,
                   mutatedCopy, putAttempted, dbWritten, mutationSucceeded,
                   loopEndResponse>>

TurnNext ==
    \/ StartTurn
    \/ ModelCall
    \/ ModelCallFails
    \/ ToolCall
    \/ ToolCallUnparsable
    \/ PushEngine
    \/ MirrorDb
    \/ Respond

TurnSpec == TurnInit /\ [][TurnNext]_vars

(***************************************************************************)
(* Properties of the edit turn (specification TurnSpec)                    *)
(***************************************************************************)
TurnReturned == pc = "idle" /\ response = loopEndResponse /\ final_message # ""

\* C6: at the end of an edit turn whose dirty flag is set, if the engine push
\* failed, the local mirror holds the mutated working copy and the working
\* copy is still the one the model loop left (no rollback).
C6_MirrorDespiteFailedPush ==
    (pc \in {"respond", "idle"} /\ modified /\ pushResult = "failed") =>
        /\ dbGraph = mutatedCopy
        /\ Working = mutatedCopy

\* C6 witness: a turn has returned after a failed push; its mutations changed
\* the graph, the mirror holds them and the engine does not.
C6_Witness ==
    /\ TurnReturned
    /\ modified
    /\ pushResult = "failed"
    /\ mutatedCopy # startCopy
    /\ dbGraph = mutatedCopy
    /\ engineGraph # mutatedCopy

\* C7: when the engine push of a dirty turn fails, the response the turn
\* returns differs from the response the same turn returns when the push
\* succeeds (which is the dict built from the state the model loop left).
C7_PushFailureSurfaced ==
    (pc = "idle" /\ final_message # "" /\ modified) =>
        /\ pushResult = "ok" => response = loopEndResponse
        /\ pushResult = "failed" => response # loopEndResponse

\* C8: the engine update and the storage write are made only if the dirty flag
\* is set and only after the model loop has ended, the engine update is
\* attempted before the storage write, and a turn in which no mutation
\* succeeded makes neither.
C8_SaveOnlyWhenDirtyEngineFirst ==
    /\ (putAttempted \/ dbWritten) =>
          /\ modified
          /\ pc \in {"mirror", "respond", "idle"}
          /\ final_message # ""
          /\ Working = mutatedCopy
    /\ (dbWritten /\ hasEngineId) => putAttempted
    /\ pc = "mirror" => ~dbWritten
    /\ ~mutationSucceeded => (~putAttempted /\ ~dbWritten)

\* C8 witness: a turn with a successful mutation has returned after the engine
\* update and the storage write.
C8_Witness ==
    /\ TurnReturned
    /\ mutationSucceeded
    /\ putAttempted
    /\ dbWritten
    /\ dbGraph = mutatedCopy

\* C9: at the start of an edit turn the working copy is the graph the engine
\* holds whenever the workflow has an engine id and the live fetch succeeded;
\* the locally stored copy is used only when the fetch failed or there is no
\* engine id.
C9_StartsFromEngineGraph ==
    (pc = "loop" /\ iteration = 0) =>
        /\ (hasEngineId /\ fetchResult = "ok") => Working = engineGraph
        /\ (Working # engineGraph) => (~hasEngineId \/ fetchResult = "failed")
        /\ (~hasEngineId \/ fetchResult = "failed") => Working = dbGraph

\* C9 witness: a second turn starts after the stored copy and the engine's
\* graph have come apart, and its working copy is the engine's graph.
C9_Witness ==
    /\ pc = "loop"
    /\ iteration = 0
    /\ turn = 2
    /\ hasEngineId
    /\ fetchResult = "ok"
    /\ engineGraph # dbGraph
    /\ Working = engineGraph

\* C32: within one edit conversation turn get_workflow_structure is executed
\* at most once, however many times the model requests it.
C32_StructureReadAtMostOnce ==
    Cardinality({i \in 1..Len(all_function_calls) :
                    all_function_calls[i].fn = "get_workflow_structure"}) <= 1

\* C37: no acknowledged edit is lost across turns: when a turn has returned
\* workflow_modified = true, the working copy the next turn of the same
\* workflow starts from is the graph that turn's mutations left, also when
\* that turn's engine push failed and the next turn's live fetch succeeds.
C37_AcknowledgedEditsKept ==
    [][(pc = "idle" /\ pc' = "loop" /\ response.workflow_modified) =>
          (nodes' = mutatedCopy.nodes /\ connections' = mutatedCopy.connections)]_vars

\* C38: every edit turn ends after at most max_iterations model calls, and a
\* turn that hits the bound still returns a reply and still saves: at the
\* bound the only step left is the forced message followed by the save, and
\* when such a turn has returned with mutations, the engine update was
\* attempted (if the workflow has an engine id) and storage holds the graph the
\* mutations left.
C38_TurnBoundedAndSaved ==
    /\ [](iteration <= max_iterations)
    /\ [][(pc = "loop" /\ iteration = max_iterations) =>
             (pc' = "save" /\ iteration' = iteration /\ mutatedCopy' = Working
              /\ final_message' = "Completed. (Note: Maximum iteration limit reached)")]_vars
    /\ []((pc = "idle" /\ final_message = "Completed. (Note: Maximum iteration limit reached)") =>
             /\ response = TurnResponse(final_message, all_function_calls, modified)
             /\ modified =>
                   /\ dbWritten
                   /\ dbGraph = mutatedCopy
                   /\ hasEngineId => putAttempted
                   /\ (hasEngineId /\ pushResult = "ok") => engineGraph = mutatedCopy)

\* C38 witness: a turn used all its model calls, was cut off with the forced
\* message, and returned after pushing and mirroring the graph its mutation
\* left.
C38_Witness ==
    /\ pc = "idle"
    /\ iteration = max_iterations
    /\ response.message = "Completed. (Note: Maximum iteration limit reached)"
    /\ response.workflow_modified
    /\ Len(all_function_calls) >= max_iterations
    /\ mutatedCopy # startCopy
    /\ pushResult = "ok"
    /\ engineGraph = mutatedCopy
    /\ dbGraph = mutatedCopy

(***************************************************************************)
(* One acquisition chat turn: workflow_chat and call_function              *)
(***************************************************************************)
MaxChatTurns == 2

StepRead == [action |-> "Read the contacts", service |-> "googleSheets",
             operation |-> "read", parameters |-> EmptyMap]

\* the draft rows a turn can find in storage
\* A key of the collected store: JSON object keys read back from storage are
\* strings ("0"), the step_index of a tool call is an integer (0).
StrKey(n) == <<"str", n>>
IntKey(n) == <<"int", n>>

Users == {"U", "V"}

DraftRow(params) ==
    [id |-> "d1", user_id |-> "V", status |-> "draft", steps |-> <<StepRead, [action |-> "Send the email", service |-> "gmail",
                           operation |-> "send", parameters |-> EmptyMap]>>,
     collected_params |-> params, n8n_workflow_id |-> "", n8n_workflow_data |-> <<>>]

StartDrafts ==
    { DraftRow(EmptyMap),
      DraftRow([k \in {StrKey(1)} |-> [range |-> "C2:C6"]]) }

\* the ids a request can name
DraftIds == {"d1", "d9"}

AVAILABLE_FUNCTIONS ==
    {"inspect_google_sheet", "read_google_sheet", "save_workflow_parameter",
     "mark_workflow_complete", "modify_workflow_steps"}

NoChatArgs == [step_index |-> -1, parameter_name |-> "", parameter_value |-> "",
               summary |-> "", modified_steps |-> <<>>, change_summary |-> "",
               spreadsheet_id |-> ""]

\* the tool calls the model asks for in an acquisition turn
ChatMenu ==
    { [fn |-> "save_workflow_parameter",
       args |-> [NoChatArgs EXCEPT !.step_index = 1, !.parameter_name = "column",
                                   !.parameter_value = "C"]],
      [fn |-> "save_workflow_parameter",
       args |-> [NoChatArgs EXCEPT !.step_index = 1, !.parameter_name = "column",
                                   !.parameter_value = "D"]],
      [fn |-> "mark_workflow_complete",
       args |-> [NoChatArgs EXCEPT !.summary = "Read and send"]],
      [fn |-> "modify_workflow_steps",
       args |-> [NoChatArgs EXCEPT !.modified_steps = <<StepRead>>,
                                   !.change_summary = "Removed the email step"]],
      [fn |-> "modify_workflow_steps",
       args |-> [NoChatArgs EXCEPT !.modified_steps = <<>>,
                                   !.change_summary = "Removed every step"]],
      [fn |-> "modify_workflow_steps",
       args |-> [NoChatArgs EXCEPT !.modified_steps =
                                       <<[action |-> "Filter the rows",
                                          parameters |-> EmptyMap]>>,
                                   !.change_summary = "Added a filter"]],
      [fn |-> "inspect_google_sheet",
       args |-> [NoChatArgs EXCEPT !.spreadsheet_id = "sheet1"]],
      [fn |-> "read_google_sheet",
       args |-> [NoChatArgs EXCEPT !.spreadsheet_id = "sheet1"]] }

\* Generated text is a sequence of words; str.lower() works word by word and
\* `phrase in text` is the search for the phrase's words in a row.
Question == <<"Which", "column", "holds", "the", "emails">>
Announce == <<"Perfect", "Creating", "your", "workflow", "now">>
HaveAll == <<"I", "have", "all", "the", "information">>
AskAll == <<"Is", "that", "All", "the", "information", "you", "have">>
ChatTexts == {Question, Announce, HaveAll, AskAll, <<"creating", "the", "workflow", "soon">>}

LowerWord(w) ==
    CASE w = "Which" -> "which"
      [] w = "Perfect" -> "perfect"
      [] w = "Creating" -> "creating"
      [] w = "I" -> "i"
      [] w = "Is" -> "is"
      [] w = "All" -> "all"
      [] w = "Email" -> "email"
      [] OTHER -> w

lower(text) == [i \in 1..Len(text) |-> LowerWord(text[i])]

Contains(phrase, text) ==
    \E i \in 0..(Len(text) - Len(phrase)) : SubSeq(text, i + 1, i + Len(phrase)) = phrase

\* lines 438 and 461: the completion phrases looked for in the reply
TextSignalsCompletion(text) ==
    \/ Contains(<<"creating", "your", "workflow", "now">>, lower(text))
    \/ Contains(<<"all", "the", "information">>, lower(text))

\* lines 408-409: the call that sets is_complete
MarksComplete_AnyCall(function_name) == function_name \in AVAILABLE_FUNCTIONS

MarksComplete(function_name) == function_name = "mark_workflow_complete"

\* lines 436-438: the text is looked at only if no call marked completion
CompleteAfterTools_TextOnly(marked, text) == TextSignalsCompletion(text)

CompleteAfterTools(marked, text) ==
    IF ~marked THEN TextSignalsCompletion(text) ELSE marked

ChatResult == [success |-> TRUE, error |-> "", message |-> "", workflow_complete |-> FALSE,
               modified_steps |-> <<>>, change_summary |-> ""]

\* lines 224-225: an exception of read_sheet_range becomes a failure result
SheetFailure_Swallowed(error) == [ChatResult EXCEPT !.message = error]

SheetFailure(error) == [ChatResult EXCEPT !.success = FALSE, !.error = error]

\* lines 135-225; sheet_readable: read_sheet_range returned the sheet's rows,
\* otherwise (missing or unreadable spreadsheet) it raised
call_function_NoSteps(function_name, arguments, sheet_readable) ==
    [ChatResult EXCEPT !.message = "Workflow modified"]

call_function(function_name, arguments, sheet_readable) ==
    IF function_name \notin AVAILABLE_FUNCTIONS
    THEN [ChatResult EXCEPT !.success = FALSE, !.error = "not found"]
    ELSE CASE function_name = "inspect_google_sheet" ->
                IF sheet_readable
                THEN [ChatResult EXCEPT !.message = "headers"]
                ELSE SheetFailure("Error reading sheet")
           [] function_name = "read_google_sheet" ->
                IF sheet_readable
                THEN [ChatResult EXCEPT !.message = "values"]
                ELSE SheetFailure("Error reading sheet")
           [] function_name = "save_workflow_parameter" ->
                [ChatResult EXCEPT !.message = "Parameter saved"]
           [] function_name = "mark_workflow_complete" ->
                [ChatResult EXCEPT !.workflow_complete = TRUE]
           [] function_name = "modify_workflow_steps" ->
                [ChatResult EXCEPT !.modified_steps = arguments.modified_steps,
                                   !.change_summary = arguments.change_summary,
                                   !.message = "Workflow modified"]

\* lines 397-405: record the value in the step-indexed store
SaveParameter(params, arguments) ==
    LET step_idx == IntKey(arguments.step_index)
        of_step == IF step_idx \in DOMAIN params THEN params[step_idx] ELSE EmptyMap
    IN Put(params, step_idx, Put(of_step, arguments.parameter_name, arguments.parameter_value))

\* lines 440-443: the store is written as a JSON object, whose keys are
\* strings; of two keys that serialise alike ("0" read back from storage and 0
\* set in this turn) the one set later, the integer, is the one kept
StoredParams(params) ==
    LET indexes == {k[2] : k \in DOMAIN params}
    IN [k \in {StrKey(n) : n \in indexes} |->
           IF IntKey(k[2]) \in DOMAIN params THEN params[IntKey(k[2])] ELSE params[k]]

\* line 382: the for loop takes the tool calls in the order of the message
NextToolCall_Reversed(calls, index) == calls[Len(calls) - index]

NextToolCall(calls, index) == calls[index + 1]

\* lines 243-245: the draft is looked up by its id
DraftFound(row, draft_id, user_id) == row.id = draft_id

\* lines 445-455 and 467-471: the dict the turn returns
ChatReply(message, calls, complete) ==
    [message |-> message, function_calls |-> calls, complete |-> complete]

\* lines 473-475: any exception becomes HTTP 500
ChatError == [message |-> <<"HTTP", "500">>, function_calls |-> <<>>, complete |-> FALSE]

editVars == <<graphVars, callVars, opCount, storeVars, turnVars>>

\* the handler has returned: its locals are gone
LocalsGone ==
    /\ workflow_steps' = <<>>
    /\ collected_params' = EmptyMap
    /\ is_complete' = FALSE
    /\ assistant_tool_calls' = <<>>
    /\ callIndex' = 0
    /\ function_responses' = <<>>
    /\ sheet_read' = "none"
    /\ current_user' = ""

\* Answer enrichment (lib.workflow_planner.enrich_steps_with_data): the field
\* map collected for step index n is merged into the parameters of step n,
\* overwriting existing keys; an index outside the list is ignored.
MergeFields(parameters, field_map) ==
    [f \in (DOMAIN parameters) \cup (DOMAIN field_map) |->
        IF f \in DOMAIN field_map THEN field_map[f] ELSE parameters[f]]

enrich_steps_with_data(steps, params) ==
    [i \in 1..Len(steps) |->
        IF IntKey(i - 1) \in DOMAIN params
        THEN [steps[i] EXCEPT !.parameters = MergeFields(@, params[IntKey(i - 1)])]
        ELSE steps[i]]

\* Graph compiler (lib.workflow_planner.generate_n8n_workflow_with_complete_info):
\* one node per step, in step order
generate_n8n_workflow_with_complete_info(steps) ==
    [i \in 1..Len(steps) |-> [name |-> steps[i].action, parameters |-> steps[i].parameters]]

\* lines 524-529: collected_params[int(key)] = value for every stored key
NormalisedParams(params) == [k \in {IntKey(j[2]) : j \in DOMAIN params} |-> params[StrKey(k[2])]]

\* the ids the engine assigns to the graphs it accepts
EngineIds == <<"e1", "e2", "e3">>

MaxCompletions == 1

ChatInit ==
    /\ nodes = <<>>
    /\ connections = EmptyMap
    /\ modified = FALSE
    /\ CallsAtRest
    /\ pc = "off"
    /\ engineGraph = NoGraph
    /\ dbGraph = NoGraph
    /\ hasEngineId = FALSE
    /\ TurnAtRest
    /\ chatPc = "idle"
    /\ workflow_draft \in StartDrafts
    /\ current_user = ""
    /\ ChatAtRest
    /\ FormAtRest
    /\ RaceAtRest

\* lines 239-272: read the draft row, its steps and its collected store.  The
\* 404 raised for an unknown id is caught by the handler's own except and
\* leaves as HTTP 500.
StartChat ==
    /\ chatPc = "idle"
    /\ chatTurn < MaxChatTurns
    /\ chatTurn' = chatTurn + 1
    /\ \E user \in Users, draft_id \in DraftIds :
          /\ IF DraftFound(workflow_draft, draft_id, user)
             THEN /\ current_user' = user
                  /\ workflow_steps' = workflow_draft.steps
                  /\ collected_params' = workflow_draft.collected_params
                  /\ chat_response' = NoChatResponse
                  /\ chatPc' = "first"
             ELSE /\ current_user' = ""
                  /\ workflow_steps' = <<>>
                  /\ collected_params' = EmptyMap
                  /\ chat_response' = ChatError
                  /\ chatPc' = "idle"
    /\ is_complete' = FALSE
    /\ assistant_tool_calls' = <<>>
    /\ callIndex' = 0
    /\ function_responses' = <<>>
    /\ markInvoked' = FALSE
    /\ sheet_read' = "none"
    /\ UNCHANGED <<workflow_draft, completeReturned, completeCount, completion_response,
                   editVars, formVars, raceVars>>

\* lines 366-380: the first model call answers with tool calls, one or two
FirstCallAsksTools ==
    /\ chatPc = "first"
    /\ \E batch \in {<<c>> : c \in ChatMenu} \cup {<<c, d>> : c, d \in ChatMenu} :
          assistant_tool_calls' = batch
    /\ is_complete' = FALSE
    /\ function_responses' = <<>>
    /\ callIndex' = 0
    /\ chatPc' = "tools"
    /\ UNCHANGED <<chatTurn, workflow_draft, workflow_steps, collected_params, chat_response,
                   markInvoked, current_user, sheet_read, completeReturned, completeCount,
                   completion_response, editVars, formVars, raceVars>>

\* lines 456-471: the first model call answers with text only
ReplyWithoutTools ==
    /\ chatPc = "first"
    /\ \E response_text \in ChatTexts :
          /\ chat_response' = ChatReply(response_text, <<>>,
                                        TextSignalsCompletion(response_text))
          /\ completeReturned' = (completeReturned \/ TextSignalsCompletion(response_text))
    /\ chatPc' = "idle"
    /\ LocalsGone
    /\ UNCHANGED <<chatTurn, workflow_draft, markInvoked, completeCount,
                   completion_response, editVars, formVars, raceVars>>

\* lines 366 and 428 raising (the model API fails): the handler answers 500
ChatModelCallFails ==
    /\ chatPc \in {"first", "second"}
    /\ chat_response' = ChatError
    /\ chatPc' = "idle"
    /\ LocalsGone
    /\ UNCHANGED <<chatTurn, workflow_draft, markInvoked, completeReturned,
                   completeCount, completion_response, editVars, formVars, raceVars>>

SheetFunctions == {"inspect_google_sheet", "read_google_sheet"}

\* lines 382-421: run the next tool call of the assistant message
RunToolCall ==
    /\ chatPc = "tools"
    /\ callIndex < Len(assistant_tool_calls)
    /\ LET tool_call == NextToolCall(assistant_tool_calls, callIndex)
           function_name == tool_call.fn
           arguments == tool_call.args
       IN \E sheet_readable \in (IF function_name \in SheetFunctions THEN BOOLEAN ELSE {TRUE}) :
             LET result == call_function(function_name, arguments, sheet_readable)
             IN /\ function_responses' = Append(function_responses, result)
                /\ sheet_read' = (IF function_name \notin SheetFunctions THEN "none"
                                  ELSE IF sheet_readable THEN "ok" ELSE "raised")
                /\ collected_params' =
                      (IF function_name = "save_workflow_parameter"
                       THEN SaveParameter(collected_params, arguments)
                       ELSE collected_params)
                /\ is_complete' = (IF MarksComplete(function_name) THEN TRUE ELSE is_complete)
                /\ markInvoked' = (markInvoked \/ function_name = "mark_workflow_complete")
                /\ IF function_name = "modify_workflow_steps" /\ result.modified_steps # <<>>
                   THEN /\ workflow_steps' = result.modified_steps
                        /\ workflow_draft' =
                              [workflow_draft EXCEPT !.steps = result.modified_steps]
                   ELSE UNCHANGED <<workflow_steps, workflow_draft>>
    /\ callIndex' = callIndex + 1
    /\ chatPc' = IF callIndex + 1 = Len(assistant_tool_calls) THEN "second" ELSE "tools"
    /\ UNCHANGED <<chatTurn, assistant_tool_calls, chat_response, current_user,
                   completeReturned, completeCount, completion_response, editVars, formVars, raceVars>>

\* line 384: json.loads(tool_call.function.arguments) raises on a payload that
\* is not JSON; the handler's except answers 500
ChatToolUnparsable ==
    /\ chatPc = "tools"
    /\ callIndex < Len(assistant_tool_calls)
    /\ chat_response' = ChatError
    /\ chatPc' = "idle"
    /\ LocalsGone
    /\ UNCHANGED <<chatTurn, workflow_draft, markInvoked, completeReturned,
                   completeCount, completion_response, editVars, formVars, raceVars>>

\* lines 423-455: the follow-up model call, completion detection, the update
\* of collected_params in storage and the return
SecondCallReplies ==
    /\ chatPc = "second"
    /\ \E text \in ChatTexts :
          /\ chat_response' = ChatReply(text, assistant_tool_calls,
                                        CompleteAfterTools(is_complete, text))
          /\ completeReturned' = (completeReturned \/ CompleteAfterTools(is_complete, text))
    /\ workflow_draft' =
          [workflow_draft EXCEPT !.collected_params = StoredParams(collected_params)]
    /\ chatPc' = "idle"
    /\ LocalsGone
    /\ UNCHANGED <<chatTurn, markInvoked, completeCount, completion_response,
                   editVars, formVars, raceVars>>

\* lines 488-590: complete_workflow_from_chat.  The engine accepts the graph
\* (200 and an id), rejects it (another status) or cannot be reached.
CompleteDraft ==
    /\ chatPc = "idle"
    /\ completeCount < MaxCompletions
    /\ completeCount' = completeCount + 1
    /\ \E user \in Users, draft_id \in DraftIds, compiled \in BOOLEAN,
          engine \in {"accepted", "rejected", "unreachable"} :
          /\ IF ~DraftFound(workflow_draft, draft_id, user) \/ ~compiled
             THEN /\ completion_response' = [status_code |-> 500, success |-> FALSE,
                                             n8n_workflow_id |-> "", n8n_error |-> ""]
                  /\ UNCHANGED workflow_draft
             ELSE LET enriched_steps ==
                          enrich_steps_with_data(workflow_draft.steps,
                              NormalisedParams(workflow_draft.collected_params))
                      final_workflow == generate_n8n_workflow_with_complete_info(enriched_steps)
                      \* lines 553-568: the id the engine assigned, None unless it
                      \* answered 200
                      n8n_workflow_id ==
                          IF engine = "accepted" THEN EngineIds[completeCount + 1] ELSE ""
                  IN \* lines 570-577: the fields written to the record
                     /\ workflow_draft' =
                           [workflow_draft EXCEPT !.steps = enriched_steps,
                                                  !.n8n_workflow_data = final_workflow,
                                                  !.n8n_workflow_id = n8n_workflow_id,
                                                  !.status = "active"]
                     /\ completion_response' =
                           [status_code |-> 200, success |-> TRUE,
                            n8n_workflow_id |-> n8n_workflow_id,
                            n8n_error |-> IF engine = "accepted" THEN "" ELSE engine]
    /\ UNCHANGED <<chatPc, chatTurn, workflow_steps, collected_params, is_complete,
                   assistant_tool_calls, callIndex, function_responses, chat_response,
                   markInvoked, current_user, sheet_read, completeReturned, editVars, formVars, raceVars>>

ChatNext ==
    \/ StartChat
    \/ FirstCallAsksTools
    \/ ReplyWithoutTools
    \/ ChatModelCallFails
    \/ RunToolCall
    \/ ChatToolUnparsable
    \/ SecondCallReplies
    \/ CompleteDraft

ChatSpec == ChatInit /\ [][ChatNext]_vars

(***************************************************************************)
(* Properties of the acquisition turn (specification ChatSpec)             *)
(***************************************************************************)
ChatReturned == chatPc = "idle" /\ chatTurn > 0 /\ chat_response # ChatError

\* the replies of ChatTexts in which a completion phrase occurs, whatever the case
CompletionWorded == {Announce, HaveAll, AskAll}

\* C10 (as stated): a chat turn reports complete = true only if
\* mark_workflow_complete was invoked in that turn; completion is never
\* inferred from the generated text alone.
C10_CompleteOnlyByExplicitSignal ==
    (ChatReturned /\ chat_response.complete) => markInvoked

\* C10 (amended): a chat turn reports complete = true only if
\* mark_workflow_complete was invoked in that turn or the turn's final message
\* contains, in any letter case, "creating your workflow now" or
\* "all the information".
C10_CompleteOnlyBySignalOrPhrase ==
    (ChatReturned /\ chat_response.complete) =>
        (markInvoked \/ chat_response.message \in CompletionWorded)

\* C10 witness: a turn that ran tool calls, none of them mark_workflow_complete,
\* has returned complete = true on the wording of its final message.
C10_Witness ==
    /\ ChatReturned
    /\ chat_response.complete
    /\ ~markInvoked
    /\ chat_response.function_calls # <<>>
    /\ chat_response.message = AskAll

ToolTurnReturned == ChatReturned /\ chat_response.function_calls # <<>>

\* C11 (as stated): in a turn where at least one capability was invoked,
\* complete is true if and only if mark_workflow_complete was among the
\* invocations, whatever the follow-up text says.
C11_ToolTurnCompleteIffMarked ==
    ToolTurnReturned => (chat_response.complete <=> markInvoked)

\* C11 (amended): in a turn where at least one capability was invoked, complete
\* is true if and only if mark_workflow_complete was among the invocations or
\* the follow-up text contains a completion phrase; when mark_workflow_complete
\* was invoked, complete is true whatever the follow-up text says.
C11_ToolTurnCompleteIffMarkedOrPhrase ==
    ToolTurnReturned =>
        /\ chat_response.complete <=>
              (markInvoked \/ chat_response.message \in CompletionWorded)
        /\ markInvoked => chat_response.complete

\* C11 witness: a turn that invoked mark_workflow_complete has returned
\* complete = true although its follow-up text is a question.
C11_Witness ==
    /\ ToolTurnReturned
    /\ markInvoked
    /\ chat_response.complete
    /\ chat_response.message = Question

\* C12: complete is terminal: once a turn for the draft has returned
\* complete = true, no later turn returns complete = false or changes the
\* draft's collected store or step list.
C12_CompleteIsTerminal ==
    [][(completeReturned /\ chatPc # "idle") =>
          /\ workflow_draft'.collected_params = workflow_draft.collected_params
          /\ workflow_draft'.steps = workflow_draft.steps
          /\ (chatPc' = "idle" /\ chat_response' # ChatError) => chat_response'.complete]_vars

\* save_workflow_parameter for (step index n, field f) is among the calls
Recorded(calls, n, f) ==
    \E i \in 1..Len(calls) :
        /\ calls[i].fn = "save_workflow_parameter"
        /\ calls[i].args.step_index = n
        /\ calls[i].args.parameter_name = f

\* C13: the persisted collected store grows monotonically: a value stored for
\* (step_index, field) is still stored after every later turn unless that turn
\* records the same (step_index, field) again.
C13_CollectedStoreMonotone ==
    [][\A k \in DOMAIN workflow_draft.collected_params :
          \A f \in DOMAIN workflow_draft.collected_params[k] :
              \/ Recorded(assistant_tool_calls, k[2], f)
              \/ /\ k \in DOMAIN workflow_draft'.collected_params
                 /\ f \in DOMAIN workflow_draft'.collected_params[k]
                 /\ workflow_draft'.collected_params[k][f] =
                       workflow_draft.collected_params[k][f]]_vars

\* C14: in every persisted draft state every step index that is a key of the
\* collected store is a valid index of the draft's current step list.
C14_CollectedKeysAreStepIndexes ==
    \A k \in DOMAIN workflow_draft.collected_params :
        k[2] \in 0..(Len(workflow_draft.steps) - 1)

\* C15: when modify_workflow_steps is invoked with a step list L, the draft's
\* persisted step list equals L as soon as the invocation has run (before the
\* follow-up model call), for every L, the empty list included.
C15_ModifiedStepsPersisted ==
    [][(/\ chatPc = "tools"
        /\ chatPc' # "idle"
        /\ assistant_tool_calls[callIndex + 1].fn = "modify_workflow_steps") =>
          workflow_draft'.steps = assistant_tool_calls[callIndex + 1].args.modified_steps]_vars

\* C16: a capability invocation fails at most itself: whatever its payload,
\* the loop reports a result for it to the model and goes on; the turn is not
\* aborted.
C16_UnparsablePayloadFailsAlone ==
    [][(chatPc = "tools" /\ callIndex < Len(assistant_tool_calls)) =>
          /\ chatPc' # "idle"
          /\ Len(function_responses') = Len(function_responses) + 1
          /\ chat_response' # ChatError]_vars

\* C17: when inspect_google_sheet or read_google_sheet addresses a missing or
\* unreadable spreadsheet, the invocation reports a failure result to the
\* model, the turn goes on, and the draft's step list and collected store
\* (stored and local) are unchanged by it.
C17_UnreadableSheetIsNotFatal ==
    [][(chatPc = "tools" /\ sheet_read' = "raised") =>
          /\ Len(function_responses') = Len(function_responses) + 1
          /\ ~function_responses'[Len(function_responses')].success
          /\ function_responses'[Len(function_responses')].error # ""
          /\ chatPc' \in {"tools", "second"}
          /\ chat_response' # ChatError
          /\ workflow_draft' = workflow_draft
          /\ collected_params' = collected_params
          /\ workflow_steps' = workflow_steps]_vars

\* C17 witness: the last invocation of a batch addressed an unreadable
\* spreadsheet and the turn stands before its follow-up model call.
C17_Witness ==
    /\ chatPc = "second"
    /\ sheet_read = "raised"
    /\ assistant_tool_calls[callIndex].fn \in SheetFunctions
    /\ ~function_responses[callIndex].success

RECURSIVE ApplySaves(_, _)
\* the collected store after the save_workflow_parameter calls of a list of
\* calls, taken from first to last
ApplySaves(params, calls) ==
    IF calls = <<>> THEN params
    ELSE ApplySaves(IF Head(calls).fn = "save_workflow_parameter"
                    THEN SaveParameter(params, Head(calls).args)
                    ELSE params,
                    Tail(calls))

ResultFits(result, call) ==
    \E sheet_readable \in BOOLEAN : result = call_function(call.fn, call.args, sheet_readable)

\* C18: within a turn the invocations run one at a time in the order
\* requested: after n of them the conversation holds the results of the first
\* n requested calls in that order and the collected store is the effect of
\* exactly those calls applied in that order; the follow-up model call is made
\* only when all results are there.
C18_InvocationsInOrder ==
    chatPc \in {"tools", "second"} =>
        /\ Len(function_responses) = callIndex
        /\ \A i \in 1..callIndex : ResultFits(function_responses[i], assistant_tool_calls[i])
        /\ collected_params =
              ApplySaves(workflow_draft.collected_params,
                         SubSeq(assistant_tool_calls, 1, callIndex))
        /\ chatPc = "second" => callIndex = Len(assistant_tool_calls)

\* C18 witness: two calls recording different values for the same field have
\* run and the later one's value is the one held.
C18_Witness ==
    /\ chatPc = "second"
    /\ Len(assistant_tool_calls) = 2
    /\ assistant_tool_calls[1].args.parameter_value = "C"
    /\ assistant_tool_calls[2].args.parameter_value = "D"
    /\ collected_params[IntKey(1)].column = "D"

\* C19: every read and write of a workflow record made by the chat endpoints
\* is scoped by owner: a turn that has got past the lookup of the record runs
\* for the record's owner.
C19_OwnerScoped ==
    chatPc \in {"first", "tools", "second"} => current_user = workflow_draft.user_id

\* C20: a record's status is active only if the engine accepted the compiled
\* graph and assigned it an id; when the engine call fails or the engine
\* rejects the graph the record stays draft.
C20_ActiveOnlyIfEngineAccepted ==
    /\ workflow_draft.status = "active" => workflow_draft.n8n_workflow_id # ""
    /\ (completion_response.success /\ completion_response.n8n_error # "") =>
          workflow_draft.status = "draft"

\* C33: modify_workflow_steps accepts only well-formed steps: a supplied list
\* with an entry that lacks action, service, operation or parameters is
\* rejected with an error result and the stored step list is left unchanged.
C33_MalformedStepsRejected ==
    [][(/\ chatPc = "tools"
        /\ callIndex' = callIndex + 1
        /\ assistant_tool_calls[callIndex + 1].fn = "modify_workflow_steps"
        /\ \E i \in 1..Len(assistant_tool_calls[callIndex + 1].args.modified_steps) :
              ~({"action", "service", "operation", "parameters"} \subseteq
                    DOMAIN assistant_tool_calls[callIndex + 1].args.modified_steps[i]))
       => (/\ ~function_responses'[Len(function_responses')].success
           /\ workflow_draft'.steps = workflow_draft.steps)]_vars

\* C39: an acquisition chat turn persists all-or-nothing: when the turn fails
\* after some of its function invocations ran, neither the step list nor the
\* collected store of the draft has changed in storage, so a step-list
\* replacement is never persisted without the parameters recorded in the same
\* turn.  (Stated for the first turn on a draft not yet completed, whose
\* stored row at the start is one of StartDrafts.)
C39_TurnAllOrNothing ==
    (chatTurn = 1 /\ completeCount = 0 /\ chatPc = "idle" /\ chat_response = ChatError) =>
        workflow_draft \in StartDrafts

\* C39 (amended): within an acquisition chat turn a step-list replacement is
\* persisted at the moment its invocation runs, and the collected store is
\* persisted only when the turn ends with a reply.  An invocation of
\* modify_workflow_steps with a non-empty list stores that list at once and
\* nothing else changes the stored steps; the stored collected store changes
\* only in the step that returns the reply, to the store the turn recorded;
\* the step in which the turn fails writes nothing, so after a failure the
\* collected store is unchanged and the step list is the last one an
\* invocation of the turn stored.
C39_StepsAtOnceParamsAtEnd ==
    [][(chatPc \in {"first", "tools", "second"}) =>
         (/\ (chatPc = "tools" /\ callIndex' = callIndex + 1
                /\ assistant_tool_calls[callIndex + 1].fn = "modify_workflow_steps"
                /\ assistant_tool_calls[callIndex + 1].args.modified_steps # <<>>)
              => workflow_draft'.steps = assistant_tool_calls[callIndex + 1].args.modified_steps
          /\ workflow_draft'.steps # workflow_draft.steps
              => (/\ chatPc = "tools" /\ callIndex' = callIndex + 1
                  /\ assistant_tool_calls[callIndex + 1].fn = "modify_workflow_steps")
          /\ workflow_draft'.collected_params # workflow_draft.collected_params
              => (/\ chatPc = "second" /\ chatPc' = "idle" /\ chat_response' # ChatError
                  /\ workflow_draft'.collected_params = StoredParams(collected_params))
          /\ (chatPc' = "idle" /\ chat_response' = ChatError)
              => workflow_draft' = workflow_draft)]_vars

\* C39 witness: in a turn a parameter was recorded and then the step list was
\* replaced; storage already holds the new step list and not yet the
\* parameter, and the follow-up model call, which may fail, is still to come.
C39_Witness ==
    /\ chatPc = "second"
    /\ Len(assistant_tool_calls) = 2
    /\ assistant_tool_calls[1].fn = "save_workflow_parameter"
    /\ assistant_tool_calls[2].fn = "modify_workflow_steps"
    /\ workflow_draft.steps = <<StepRead>>
    /\ workflow_steps = <<StepRead>>
    /\ IntKey(1) \in DOMAIN collected_params
    /\ StoredParams(collected_params) # workflow_draft.collected_params

(***************************************************************************)
(* The form path: complete_workflow_with_answers (main.py) and the pattern *)
(* search it delegates to, smart_search_sheet_api (tools/gsuite/sheets.py) *)
(* (specification FormSpec)                                                *)
(***************************************************************************)
MaxRequests == 1

DataTypes == {"email", "Email", "name"}

\* the answers a form can send for one step: a column with no rows, a start
\* row alone, an empty or a given end row, an end row alone; the smart search
\* with or without a column, rows, a data type and the spreadsheet id
AnswerSets ==
    LET Absent == "<absent>"
        Fields(col, start, end, mode, tag, sheet) ==
            LET fields == [column |-> col, start_row |-> start, end_row |-> end,
                           search_mode |-> mode, data_type |-> tag, spreadsheet_id |-> sheet]
            IN [f \in {g \in DOMAIN fields : fields[g] # Absent} |-> fields[f]]
        RowAnswers ==
            {<<Absent, Absent>>, <<Absent, "6">>} \cup {<<"2", e>> : e \in {Absent, "", "6"}}
    IN {Fields(c, r[1], r[2], Absent, Absent, "s1") : c \in {"B", "C", Absent}, r \in RowAnswers}
       \cup
       {Fields(c, r[1], r[2], "smart_search", t, "s1") :
           c \in {Absent, "C"}, r \in {<<Absent, Absent>>, <<"2", Absent>>, <<"2", "6">>},
           t \in DataTypes \cup {Absent}}
       \cup
       {Fields(Absent, r[1], r[2], "smart_search", t, Absent) :
           r \in {<<Absent, Absent>>, <<"2", "6">>}, t \in DataTypes}

\* user_responses: the key "step_<n>_<field>" is written by the parts that
\* key.split("_", 2) yields
UserResponses(n, fields) ==
    [k \in {<<"step", n, f>> : f \in DOMAIN fields} |-> fields[k[3]]]

\* lines 587-597: collected_data[int(parts[1])][parts[2]] = value
CollectedData(responses) ==
    LET keys == {k \in DOMAIN responses : k[1] = "step"}
    IN [i \in {IntKey(k[2]) : k \in keys} |->
           [f \in {k[3] : k \in {j \in keys : j[2] = i[2]}} |-> responses[<<"step", i[2], f>>]]]

Get(data, key, default) == IF key \in DOMAIN data THEN data[key] ELSE default
DropKeys(data, keys) == [f \in (DOMAIN data) \ keys |-> data[f]]

\* read_sheet_range raises, or returns the rows of the window
SheetReads ==
    LET Sheets == { <<>>,
                    <<<<"ann@x.org", "42">>>>,
                    <<<<"", "bob@x.org">>, <<"42", "ann@x.org">>>> }
    IN {[raised |-> TRUE, values |-> <<>>]} \cup {[raised |-> FALSE, values |-> v] : v \in Sheets}

\* lines 116-121 of sheets.py: the data types that have a pattern
patterns == {"email", "phone", "url", "number"}

\* lines 92-167 of sheets.py.  The sheet is read before the data type is
\* looked up; read_sheet_range either raises or returns a dict with "values".
smart_search_sheet_api(request, sheet) ==
    LET data_type == LowerWord(request.data_type)
        \* line 137: cell and re.search(pattern, str(cell)), for the cells read
        CellMatches(cell) ==
            CASE data_type = "email" -> cell \in {"ann@x.org", "bob@x.org"}
              [] data_type = "number" -> cell = "42"
              [] OTHER -> FALSE
        \* line 138: chr(65 + col_idx)
        Letter(col) == <<"A", "B", "C">>[col]
        \* line 156: sorted(list(found_columns))
        SortedColumns(cols) ==
            [i \in 1..Cardinality(cols) |->
                Letter(CHOOSE c \in cols : Cardinality({d \in cols : d < c}) = i - 1)]
        found_items == {<<r, c>> \in (1..Len(sheet.values)) \X (1..2) :
                           /\ c <= Len(sheet.values[r])
                           /\ sheet.values[r][c] # ""
                           /\ CellMatches(sheet.values[r][c])}
        found_columns == {rc[2] : rc \in found_items}
        columns == SortedColumns(found_columns)
    IN IF sheet.raised THEN ToolResponse(FALSE, <<>>, "Failed to search sheet", TRUE)
       ELSE IF data_type \notin patterns
       THEN ToolResponse(FALSE, <<>>, "Unsupported data type", FALSE)
       ELSE ToolResponse(TRUE,
                <<[data_type |-> data_type,
                   unique_values |-> {sheet.values[rc[1]][rc[2]] : rc \in found_items},
                   total_found |-> Cardinality(found_items),
                   columns_with_data |-> columns,
                   recommended_columns |->
                       SubSeq(columns, 1, IF Len(columns) < 3 THEN Len(columns) ELSE 3)]>>,
                "", FALSE)

\* lines 635 and 653-656 of main.py: "C2:C6", or "C2:C" without an end row; the
\* text is written by its parts
range_str_Closed(col, start, end) == <<col, start, ":", col, end>>

range_str(col, start, end) ==
    IF end # "" THEN <<col, start, ":", col, end>> ELSE <<col, start, ":", col>>

\* lines 603 and 646: which branch the field map of a step takes
SmartMode(data) ==
    Get(data, "search_mode", "specific_column") = "smart_search" /\ "data_type" \in DOMAIN data
SpecificColumnMode(data) ==
    ~SmartMode(data) /\ "column" \in DOMAIN data /\ "start_row" \in DOMAIN data

\* lines 612-618: the body posted to the search endpoint
SearchRequest(user_id, data) ==
    LET IntOf(text) == CASE text = "2" -> 2 [] text = "6" -> 6
    IN
    [user_id |-> user_id,
     spreadsheet_id |-> Get(data, "spreadsheet_id", ""),
     data_type |-> data.data_type,
     start_row |-> IF "start_row" \in DOMAIN data THEN IntOf(data.start_row) ELSE 2,
     end_row |-> IF Get(data, "end_row", "") # "" THEN IntOf(data.end_row) ELSE 0]

\* lines 609-638: the post raises, or is refused because the body lacks the
\* spreadsheet id (422), or is answered 200 with the ToolResponse
SearchCall(user_id, data, post_ok, sheet) ==
    IF ~post_ok THEN [raised |-> TRUE, status_code |-> 0, body |-> ToolResponse(FALSE, <<>>, "", FALSE)]
    ELSE IF "spreadsheet_id" \notin DOMAIN data
    THEN [raised |-> FALSE, status_code |-> 422, body |-> ToolResponse(FALSE, <<>>, "", FALSE)]
    ELSE [raised |-> FALSE, status_code |-> 200,
          body |-> smart_search_sheet_api(SearchRequest(user_id, data), sheet)]

\* lines 640-644: the temporary fields of the smart search
StripSearchKeys_ModeOnly(data) == DropKeys(data, {"search_mode", "data_type"})

StripSearchKeys(data) == DropKeys(data, {"search_mode", "data_type", "start_row", "end_row"})

\* lines 599-662: the search-mode handling of one step's field map
HandleSearchMode(data, call) ==
    LET \* lines 622-635: the results and the range of the first recommended column
        WithSearchResults ==
            IF ~call.raised /\ call.status_code = 200 /\ call.body.success
            THEN LET search_data == call.body.data[1]
                     found == Put(Put(data, "smart_search_results", search_data.unique_values),
                                  "columns_found", search_data.columns_with_data)
                 IN IF search_data.recommended_columns # <<>>
                    THEN Put(found, "range",
                             range_str(search_data.recommended_columns[1],
                                       Get(data, "start_row", "2"), Get(data, "end_row", "")))
                    ELSE found
            ELSE data
        \* lines 646-662: the range replaces the row fields; the column is kept
        SpecificColumn ==
            DropKeys(Put(data, "range",
                         range_str(data.column, Get(data, "start_row", "2"),
                                   Get(data, "end_row", ""))),
                     {"start_row", "end_row"})
    IN IF SmartMode(data) THEN StripSearchKeys(WithSearchResults)
       ELSE IF SpecificColumnMode(data) THEN SpecificColumn
       ELSE data

FormInit ==
    /\ nodes = <<>>
    /\ connections = EmptyMap
    /\ modified = FALSE
    /\ CallsAtRest
    /\ pc = "off"
    /\ engineGraph = NoGraph
    /\ dbGraph = NoGraph
    /\ hasEngineId = FALSE
    /\ TurnAtRest
    /\ chatPc = "off"
    /\ workflow_draft = DraftRow(EmptyMap)
    /\ current_user = ""
    /\ ChatAtRest
    /\ FormAtRest
    /\ RaceAtRest

\* lines 566-723 of main.py: complete_workflow_with_answers.  The 404 raised
\* for a record the user does not own is caught by the handler's own except
\* and leaves as HTTP 500.
CompleteWithAnswers ==
    /\ requestCount < MaxRequests
    /\ requestCount' = requestCount + 1
    /\ \E user_id \in Users, fields \in AnswerSets, n \in {0, 2}, post_ok \in BOOLEAN,
          sheet \in SheetReads, engine \in {"accepted", "rejected", "unreachable"} :
          LET responses == UserResponses(n, fields)
              \* workflow_service.get_workflow_by_id: the record of that id owned
              \* by the user
              owned == workflow_draft.id = "d1" /\ workflow_draft.user_id = user_id
              call == SearchCall(user_id, fields, post_ok, sheet)
              searched == owned /\ SmartMode(fields) /\ ~call.raised /\ call.status_code = 200
              handled == [k \in DOMAIN CollectedData(responses) |->
                             HandleSearchMode(CollectedData(responses)[k], call)]
              enriched_steps == enrich_steps_with_data(workflow_draft.steps, handled)
              final_workflow == generate_n8n_workflow_with_complete_info(enriched_steps)
              \* lines 691-699: the id the engine assigned when it answered 200
              workflow_result ==
                  [status |-> CASE engine = "accepted" -> 200 [] engine = "rejected" -> 400
                                [] OTHER -> 500,
                   workflow_id |-> IF engine = "accepted" THEN EngineIds[requestCount + 1]
                                   ELSE ""]
          IN \* the post is made in smart mode only, the sheet is read only by the
             \* search, and nothing is called for a record that is not found
             /\ (~owned \/ ~SmartMode(fields)) => post_ok
             /\ ~searched => sheet = [raised |-> FALSE, values |-> <<>>]
             /\ ~owned => engine = "accepted"
             /\ user_responses' = responses
             /\ IF ~owned
                THEN /\ complete_response' = [status_code |-> 500, success |-> FALSE,
                                            workflow_status |-> 0, workflow_id |-> ""]
                     /\ collected_data' = EmptyMap
                     /\ UNCHANGED <<workflow_draft, search_request, sheet_data, search_response>>
                ELSE /\ collected_data' = handled
                     /\ IF searched
                        THEN /\ search_request' = SearchRequest(user_id, fields)
                             /\ sheet_data' = sheet
                             /\ search_response' = call.body
                        ELSE UNCHANGED <<search_request, sheet_data, search_response>>
                     /\ workflow_draft' =
                           [workflow_draft EXCEPT !.steps = enriched_steps,
                                                  !.n8n_workflow_id = workflow_result.workflow_id,
                                                  !.n8n_workflow_data = final_workflow,
                                                  !.status = "active"]
                     /\ complete_response' =
                           [status_code |-> 200, success |-> TRUE,
                            workflow_status |-> workflow_result.status,
                            workflow_id |-> workflow_result.workflow_id]
    /\ UNCHANGED <<editVars, raceVars, chatPc, chatTurn, workflow_steps, collected_params,
                   is_complete, assistant_tool_calls, callIndex, function_responses,
                   chat_response, markInvoked, current_user, sheet_read, completeReturned,
                   completeCount, completion_response, workflows, planning>>

\* lines 91-167 of sheets.py: the search endpoint called on its own
SmartSearch ==
    /\ requestCount < MaxRequests
    /\ requestCount' = requestCount + 1
    /\ \E user_id \in Users, data_type \in DataTypes, start_row \in {2}, end_row \in {0, 6},
          sheet \in SheetReads :
          LET request == [user_id |-> user_id, spreadsheet_id |-> "s1",
                          data_type |-> data_type, start_row |-> start_row,
                          end_row |-> end_row]
          IN /\ search_request' = request
             /\ sheet_data' = sheet
             /\ search_response' = smart_search_sheet_api(request, sheet)
    /\ UNCHANGED <<editVars, raceVars, chatVars, user_responses, collected_data,
                   complete_response, workflows, planning>>

\* workflow_service.create_workflow (lines 20-61): the row inserted; status
\* defaults to "active", missing_info to [] and collected_params to {}
create_workflow(user_id, steps, n8n_workflow_id, status, missing_info) ==
    [user_id |-> user_id, steps |-> steps, n8n_workflow_id |-> n8n_workflow_id,
     status |-> status, missing_info |-> missing_info, collected_params |-> EmptyMap]

\* lines 100-172 (process_video) and 227-291 (plan_workflow) of main.py.  The
\* planner (lib.workflow_planner.interactive_workflow_planning) answers
\* needs_input with its questions or complete; a complete plan is created in
\* the engine and saved as an active row.  process_video saves the draft
\* without the questions, plan_workflow passes them as missing_info.  An
\* insert that fails raises and the request leaves as HTTP 500.
PlanRequest(path) ==
    /\ requestCount < MaxRequests
    /\ requestCount' = requestCount + 1
    /\ \E user_id \in Users, status \in {"needs_input", "complete"}, insert_ok \in BOOLEAN,
          questions \in {<<"Which spreadsheet?">>, <<"Which spreadsheet?", "Which column?">>},
          engine \in {"accepted", "unreachable"} :
          LET steps == <<StepRead>>
              row == IF status = "needs_input"
                     THEN create_workflow(user_id, steps, "", "draft",
                                          IF path = "plan_workflow" THEN questions ELSE <<>>)
                     ELSE create_workflow(user_id, steps,
                                          IF engine = "accepted"
                                          THEN EngineIds[requestCount + 1] ELSE "",
                                          "active", <<>>)
          IN \* the planner asks questions only with needs_input, and the engine
             \* is called only for a complete plan
             /\ status = "complete" => questions = <<"Which spreadsheet?">>
             /\ status = "needs_input" => engine = "accepted"
             /\ planning' = [request |-> requestCount + 1, path |-> path, status |-> status,
                             questions |-> IF status = "needs_input" THEN questions ELSE <<>>,
                             status_code |-> IF insert_ok THEN 200 ELSE 500]
             /\ workflows' = IF insert_ok THEN Append(workflows, row) ELSE workflows
    /\ UNCHANGED <<editVars, raceVars, chatVars, search_request, sheet_data, search_response,
                   user_responses, collected_data, complete_response>>

FormNext ==
    \/ CompleteWithAnswers
    \/ SmartSearch
    \/ PlanRequest("process_video")
    \/ PlanRequest("plan_workflow")

FormSpec == FormInit /\ [][FormNext]_vars

(***************************************************************************)
(* Properties of the form path (specification FormSpec)                    *)
(***************************************************************************)
Completed == complete_response.success
\* the steps the last answers name, and the answers given for step n
AnsweredSteps == {k[2] : k \in DOMAIN user_responses}
Answers(n) == CollectedData(user_responses)[IntKey(n)]
InRange(n) == n < Len(workflow_draft.steps)
RangeIs(n, text) ==
    /\ "range" \in DOMAIN workflow_draft.steps[n + 1].parameters
    /\ workflow_draft.steps[n + 1].parameters.range = text
\* c s ":" c e, and c s ":" c when the end row is absent or empty
ExpectedRange(answers) ==
    IF "end_row" \in DOMAIN answers /\ answers.end_row # ""
    THEN <<answers.column, answers.start_row, ":", answers.column, answers.end_row>>
    ELSE <<answers.column, answers.start_row, ":", answers.column>>

\* C21 (as stated): completing a draft whose answers for a step contain
\* column c, start_row s and end_row e gives that step's range parameter the
\* value c s ":" c e, and c s ":" c when end_row is absent or empty.
C21_RangeFromColumnAndRows ==
    Completed =>
        \A n \in AnsweredSteps :
            (InRange(n) /\ {"column", "start_row"} \subseteq DOMAIN Answers(n)) =>
                RangeIs(n, ExpectedRange(Answers(n)))

\* C21 (amended): the same, for answers that do not select the smart search
\* (search_mode = smart_search together with a data_type), which takes
\* precedence over the column and row fields.
C21_RangeFromColumnAndRowsUnlessSmartSearch ==
    Completed =>
        \A n \in AnsweredSteps :
            (/\ InRange(n)
             /\ {"column", "start_row"} \subseteq DOMAIN Answers(n)
             /\ ~("data_type" \in DOMAIN Answers(n)
                  /\ "search_mode" \in DOMAIN Answers(n)
                  /\ Answers(n).search_mode = "smart_search")) =>
                RangeIs(n, ExpectedRange(Answers(n)))

\* C21 witness: column C with rows 2 to 6 has given step 0 the range "C2:C6".
C21_Witness ==
    /\ Completed
    /\ AnsweredSteps = {0}
    /\ Answers(0) = [column |-> "C", start_row |-> "2", end_row |-> "6", spreadsheet_id |-> "s1"]
    /\ RangeIs(0, <<"C", "2", ":", "C", "6">>)

NoneOf(keys, data) == keys \cap DOMAIN data = {}
SearchKeys == {"search_mode", "data_type", "start_row", "end_row"}

C23_UnsupportedTypeNotRetryable ==
    (search_request.user_id # "" /\ LowerWord(search_request.data_type) \notin patterns) =>
        /\ ~search_response.success
        /\ ~search_response.retryable
        /\ search_response.data = <<>>

\* C34: whenever the planner reports needs_input, on the process-video path
\* and on the plan-workflow path, a request that is answered creates exactly one
\* record, with status draft, a missing-info snapshot equal to the planner's
\* question set and an empty collected store; when the planner reports
\* complete, no draft record is created.
C34_DraftCreatedWithQuestions ==
    [][(planning'.request = planning.request + 1 /\ planning'.status_code = 200) =>
          IF planning'.status = "needs_input"
          THEN /\ Len(workflows') = Len(workflows) + 1
               /\ SubSeq(workflows', 1, Len(workflows)) = workflows
               /\ workflows'[Len(workflows')].status = "draft"
               /\ workflows'[Len(workflows')].missing_info = planning'.questions
               /\ workflows'[Len(workflows')].collected_params = EmptyMap
          ELSE \A i \in (Len(workflows) + 1)..Len(workflows') :
                  workflows'[i].status # "draft"]_vars

(***************************************************************************)
(* Two acquisition chat turns on one draft, served by two server processes *)
(* (specification RaceSpec).  Inside one process the handler never         *)
(* suspends; between processes the turns interleave at the storage and     *)
(* model calls.                                                            *)
(***************************************************************************)
\* lines 381-405: the loop over the tool calls, as it changes the local store
RECURSIVE AfterToolCalls(_, _)
AfterToolCalls(params, calls) ==
    IF calls = <<>> THEN params
    ELSE AfterToolCalls(IF Head(calls).fn = "save_workflow_parameter"
                        THEN SaveParameter(params, Head(calls).args)
                        ELSE params,
                        Tail(calls))

\* lines 411-421: every modify_workflow_steps call with steps writes them to
\* the record at once
RECURSIVE StepsAfterToolCalls(_, _)
StepsAfterToolCalls(steps, calls) ==
    IF calls = <<>> THEN steps
    ELSE StepsAfterToolCalls(IF /\ Head(calls).fn = "modify_workflow_steps"
                                /\ Head(calls).args.modified_steps # <<>>
                             THEN Head(calls).args.modified_steps
                             ELSE steps,
                             Tail(calls))

\* lines 441-443: update({"collected_params": collected_params}) replaces the
\* stored object by the turn's own; what is stored at that moment is not read
WrittenStore_Merged(stored, params) ==
    [k \in (DOMAIN stored) \cup (DOMAIN StoredParams(params)) |->
        IF k \notin DOMAIN StoredParams(params) THEN stored[k]
        ELSE IF k \notin DOMAIN stored THEN StoredParams(params)[k]
        ELSE MergeFields(stored[k], StoredParams(params)[k])]

WrittenStore(stored, params) == StoredParams(params)

RaceInit ==
    /\ nodes = <<>>
    /\ connections = EmptyMap
    /\ modified = FALSE
    /\ CallsAtRest
    /\ pc = "off"
    /\ engineGraph = NoGraph
    /\ dbGraph = NoGraph
    /\ hasEngineId = FALSE
    /\ TurnAtRest
    /\ chatPc = "idle"
    /\ workflow_draft \in StartDrafts
    /\ current_user = ""
    /\ ChatAtRest
    /\ FormAtRest
    /\ RaceAtRest

raceFrame == <<editVars, formVars, chatPc, chatTurn, workflow_steps, collected_params,
               is_complete, assistant_tool_calls, callIndex, function_responses,
               chat_response, markInvoked, current_user, sheet_read, completeReturned,
               completeCount, completion_response>>

\* lines 242-272: the turn reads the record and takes its collected store
RaceRead(w) ==
    /\ racePc[w] = "off"
    /\ racePc' = [racePc EXCEPT ![w] = "read"]
    /\ raceParams' = [raceParams EXCEPT ![w] = workflow_draft.collected_params]
    /\ readStore' = [readStore EXCEPT ![w] = workflow_draft.collected_params]
    /\ writesAtRead' =
          [writesAtRead EXCEPT ![w] = Cardinality({v \in Workers : racePc[v] = "done"})]
    /\ UNCHANGED <<raceFrame, workflow_draft, raceCalls, lastWriter>>

\* lines 365-376: the model answers with tool calls, one or two of them
RaceModelCalls(w) ==
    /\ racePc[w] = "read"
    /\ LET Save(n, name, value) ==
               [fn |-> "save_workflow_parameter",
                args |-> [NoChatArgs EXCEPT !.step_index = n, !.parameter_name = name,
                                            !.parameter_value = value]]
           RaceMenu ==
               { Save(0, "spreadsheet_id", "sheet1"), Save(1, "range", "C2:C6"),
                 Save(1, "range", "B2:B9"),
                 [fn |-> "mark_workflow_complete",
                  args |-> [NoChatArgs EXCEPT !.summary = "Read and send"]],
                 [fn |-> "modify_workflow_steps",
                  args |-> [NoChatArgs EXCEPT !.modified_steps = <<StepRead>>,
                                              !.change_summary = "Removed the email step"]] }
       IN \E calls \in {<<c>> : c \in RaceMenu} \cup {<<c, d>> : c, d \in RaceMenu} :
              raceCalls' = [raceCalls EXCEPT ![w] = calls]
    /\ racePc' = [racePc EXCEPT ![w] = "asked"]
    /\ UNCHANGED <<raceFrame, workflow_draft, raceParams, readStore, writesAtRead, lastWriter>>

\* lines 456-471: the model answers with text only; the turn returns and
\* writes nothing
RaceModelReplies(w) ==
    /\ racePc[w] = "read"
    /\ racePc' = [racePc EXCEPT ![w] = "replied"]
    /\ UNCHANGED <<raceFrame, workflow_draft, raceParams, raceCalls, readStore, writesAtRead,
                   lastWriter>>

\* lines 381-421: the tool calls run in order; saves go to the local store,
\* modified steps to the record
RaceTools(w) ==
    /\ racePc[w] = "asked"
    /\ racePc' = [racePc EXCEPT ![w] = "called"]
    /\ raceParams' = [raceParams EXCEPT ![w] = AfterToolCalls(@, raceCalls[w])]
    /\ workflow_draft' =
          [workflow_draft EXCEPT !.steps = StepsAfterToolCalls(@, raceCalls[w])]
    /\ UNCHANGED <<raceFrame, raceCalls, readStore, writesAtRead, lastWriter>>

\* lines 365-373, 427-431 and 473-475: a model call raises; the turn leaves as
\* HTTP 500 before the store is written
RaceModelFails(w) ==
    /\ racePc[w] \in {"read", "called"}
    /\ racePc' = [racePc EXCEPT ![w] = "failed"]
    /\ UNCHANGED <<raceFrame, workflow_draft, raceParams, raceCalls, readStore, writesAtRead,
                   lastWriter>>

\* lines 427-455: after the second model call the local store is written to
\* the record, with no check of what the record holds by then
RaceWrite(w) ==
    /\ racePc[w] = "called"
    /\ racePc' = [racePc EXCEPT ![w] = "done"]
    /\ workflow_draft' =
          [workflow_draft EXCEPT !.collected_params = WrittenStore(@, raceParams[w])]
    /\ lastWriter' = w
    /\ UNCHANGED <<raceFrame, raceParams, raceCalls, readStore, writesAtRead>>

RaceNext ==
    \/ \E w \in Workers : RaceRead(w)
    \/ \E w \in Workers : RaceModelCalls(w)
    \/ \E w \in Workers : RaceModelReplies(w)
    \/ \E w \in Workers : RaceTools(w)
    \/ \E w \in Workers : RaceModelFails(w)
    \/ \E w \in Workers : RaceWrite(w)

RaceSpec == RaceInit /\ [][RaceNext]_vars

(***************************************************************************)
(* Properties of overlapping turns (specification RaceSpec)                *)
(***************************************************************************)
BothWrote == \A w \in Workers : racePc[w] = "done"
\* both turns read the record before either wrote it
Overlapped == \A w \in Workers : writesAtRead[w] = 0
\* the values a turn's tool calls recorded
SavedBy(w) ==
    {<<raceCalls[w][i].args.step_index, raceCalls[w][i].args.parameter_name,
       raceCalls[w][i].args.parameter_value>> :
        i \in {j \in 1..Len(raceCalls[w]) : raceCalls[w][j].fn = "save_workflow_parameter"}}
Holds(store, e) ==
    /\ StrKey(e[1]) \in DOMAIN store
    /\ e[2] \in DOMAIN store[StrKey(e[1])]
    /\ store[StrKey(e[1])][e[2]] = e[3]

\* C24: when two chat turns on one draft overlap and both persist, the stored
\* collected store is the one written by the turn that persisted last: a value
\* recorded only by the other turn, and not already stored when the last writer
\* read the draft, is absent from it.
C24_LastWriterWins ==
    (BothWrote /\ Overlapped) =>
        /\ workflow_draft.collected_params = StoredParams(raceParams[lastWriter])
        /\ \A o \in Workers \ {lastWriter} :
               \A e \in SavedBy(o) :
                   (e \notin SavedBy(lastWriter) /\ ~Holds(readStore[lastWriter], e)) =>
                       ~Holds(workflow_draft.collected_params, e)

\* C24 witness: both turns read the empty store; w1 recorded the spreadsheet id
\* and wrote, then w2 wrote the range it recorded: the spreadsheet id is lost.
C24_Witness ==
    /\ BothWrote
    /\ Overlapped
    /\ lastWriter = "w2"
    /\ <<0, "spreadsheet_id", "sheet1">> \in SavedBy("w1")
    /\ SavedBy("w2") = {<<1, "range", "C2:C6">>}
    /\ ~Holds(workflow_draft.collected_params, <<0, "spreadsheet_id", "sheet1">>)
    /\ Holds(workflow_draft.collected_params, <<1, "range", "C2:C6">>)

(***************************************************************************)
(* Completion called again on a workflow an earlier completion activated   *)
(* (specification AgainSpec)                                               *)
(***************************************************************************)
\* the row an earlier completion left (workflow_chat.py lines 570-577, main.py
\* lines 701-709): enriched steps, the compiled graph, the engine's id "e0"
\* and status active
AgainInit ==
    /\ nodes = <<>>
    /\ connections = EmptyMap
    /\ modified = FALSE
    /\ CallsAtRest
    /\ pc = "off"
    /\ engineGraph = NoGraph
    /\ dbGraph = NoGraph
    /\ hasEngineId = FALSE
    /\ TurnAtRest
    /\ chatPc = "idle"
    /\ \E d \in StartDrafts :
          LET enriched_steps ==
                  enrich_steps_with_data(d.steps, NormalisedParams(d.collected_params))
          IN workflow_draft =
                 [d EXCEPT !.steps = enriched_steps,
                           !.n8n_workflow_data =
                               generate_n8n_workflow_with_complete_info(enriched_steps),
                           !.n8n_workflow_id = "e0",
                           !.status = "active"]
    /\ current_user = ""
    /\ ChatAtRest
    /\ FormAtRest
    /\ RaceAtRest

AgainNext ==
    \/ CompleteDraft
    \/ CompleteWithAnswers

AgainSpec == AgainInit /\ [][AgainNext]_vars

\* a completion handler found the record and went on to create the graph
CompletionRan ==
    \/ completeCount' = completeCount + 1 /\ completion_response'.status_code = 200
    \/ requestCount' = requestCount + 1 /\ complete_response'.status_code = 200

\* C40: completing is idempotent with respect to the engine: a completion
\* called on a workflow that is already active with an assigned engine id
\* creates no second engine graph (no new id comes back from the engine) and
\* leaves the stored engine id as it was.
C40_CompletionIdempotent ==
    [][(/\ workflow_draft.status = "active"
        /\ workflow_draft.n8n_workflow_id # ""
        /\ CompletionRan)
       => (/\ workflow_draft'.n8n_workflow_id = workflow_draft.n8n_workflow_id
           /\ completion_response'.n8n_workflow_id \in {"", workflow_draft.n8n_workflow_id}
           /\ complete_response'.workflow_id \in {"", workflow_draft.n8n_workflow_id})]_vars

====
